---- MODULE Spec2Model ----
(***************************************************************************)
(* Banking portal: the employee transaction ledger (verify / submit /      *)
(* submit-bulk over Mongoose documents) and the customer login lockout.    *)
(*                                                                         *)
(* A request handler is a sequence of steps separated by its awaits: the   *)
(* read of a document (findById / find) is one step, every save() is a     *)
(* later step.  Mongoose's save() writes only the paths the handler        *)
(* modified on its in-memory copy; there is no version check on scalar     *)
(* paths, so the last writer of a path wins.                               *)
(***************************************************************************)
EXTENDS Integers, Sequences, FiniteSets, TLC

\* ---------------------------------------------------------------- bounds
MaxTx       == 3      \* transactions that may be created
MaxRaceTx   == 1      \* transactions created while requests interleave
NumHandlers == 2      \* requests in flight at the same time
MaxTime     == 1      \* clock ticks in the ledger specifications
MaxNoteLen  == 1      \* length of the notes sent with a verify request
MaxIds      == 3      \* length of the transactionIds array of submit-bulk
MaxClock    == 45     \* minutes the clock may reach in the login specifications
WaitStep    == 15     \* minutes that pass in one step of the login specifications
MaxLogins   == 2      \* successful logins (session ids generated)
MaxEmpFails == 7      \* failed employee logins in a row
MaxSessions == 2      \* sessions the store has held
MaxSecrets  == 2      \* distinct _csrf secrets
MaxTokens   == 2      \* CSRF tokens handed out
MaxIdle     == 1815   \* seconds without activity the employee client is followed for
MaxTimers   == 3      \* session-timeout timers pending in the customer client

\* ------------------------------------------------------- program constants
NOTES_MAX == 500      \* notes.trim().substring(0, 500)
MAX_LOGIN_ATTEMPTS == 5   \* PASSWORD_CONFIG.MAX_LOGIN_ATTEMPTS
LOCKOUT_TIME == 30        \* PASSWORD_CONFIG.LOCKOUT_TIME, in minutes
JWT_EXPIRY == 1440        \* expiresIn: '24h', in minutes
WARNING_25 == 1500        \* 25 * 60 * 1000 ms, in seconds
WARNING_28 == 1680        \* 28 * 60 * 1000 ms, in seconds
WARNING_29 == 1740        \* 29 * 60 * 1000 ms, in seconds
LOGOUT_AT == 1800         \* 30 * 60 * 1000 ms, in seconds
LOGOUT_DELAY == 2         \* setTimeout(() => employeeLogout(), 2000), in seconds
REQUEST_TIMEOUT == 10     \* axios timeout: 10000 ms, in seconds
SESSION_TIMEOUT == 30     \* 30 * 60 * 1000 ms, in minutes

Employees == {"e1", "e2"}
Customers == {"u1", "u2"}
NoOne     == "none"   \* no principal in the session
NullRef   == "null"   \* verifiedBy: null
NullDate  == -1       \* verifiedAt / submittedAt: null
Handlers  == 1..NumHandlers
TxIds     == 1..MaxTx
NoteChars == {" ", "a"}

VARIABLES
  tx,      \* the transactions collection: sequence of documents, _id = index
  req,     \* per handler: the request in flight, its in-memory documents, its response
  snap,    \* per handler: the ids listed by submit-bulk and the collection its query saw
  now,     \* the clock (new Date()), in minutes
  users,   \* the users collection: the customer documents, by username
  lreq,    \* per handler: the customer login in flight and its response
  streak,  \* per customer: the failed logins since the last successful one
  sids,    \* session ids generated so far
  emps,    \* the employees collection: the employee documents, by username
  sessions,\* the session store: sequence of sessions, connect.sid = index
  ctok,    \* the CSRF tokens handed out: the _csrf secret and the session of the request
  jwts,    \* the authToken cookies (JWTs) issued by customer logins
  gone,    \* the JWTs presented to a logout that has completed
  estreak, \* per employee: the failed logins since the last successful one
  web,     \* the portal request answered last, with its response
  mon,     \* the employee client: employeeUser, the inactivity timers, the page
  cmon,    \* the customer client: user and the session-timeout timers
  pw,      \* the password utilities: the last hashPassword and verifyPassword call
  used     \* per customer: the passwords the customer has set, in order of use

ledgerVars == <<tx, req, snap>>
loginVars  == <<users, lreq, streak, sids>>
webVars    == <<emps, sessions, ctok, jwts, gone, estreak, web>>
clientVars == <<mon, cmon>>
serverVars == <<tx, req, snap, now, users, lreq, streak, sids,
                emps, sessions, ctok, jwts, gone, estreak, web, pw, used>>
vars       == <<tx, req, snap, now, users, lreq, streak, sids,
                emps, sessions, ctok, jwts, gone, estreak, web, mon, cmon, pw, used>>

\* ------------------------------------------------------------ small helpers
Range(s) == {s[i] : i \in 1..Len(s)}

Min(a, b) == IF a < b THEN a ELSE b

\* a string is the sequence of its characters
EmptyString == <<>>

SeqsUpTo(S, n) == UNION {[1..k -> S] : k \in 0..n}

\* String.prototype.trim on a sequence of characters
RECURSIVE TrimLeft(_)
TrimLeft(s) == IF s # <<>> /\ Head(s) = " " THEN TrimLeft(Tail(s)) ELSE s

RECURSIVE TrimRight(_)
TrimRight(s) ==
  IF s # <<>> /\ s[Len(s)] = " " THEN TrimRight(SubSeq(s, 1, Len(s) - 1)) ELSE s

Trim(s) == TrimRight(TrimLeft(s))

\* String.prototype.substring(0, n)
Substring0(s, n) == SubSeq(s, 1, Min(n, Len(s)))

\* notes.trim().substring(0, 500)
NormNotes(notes) == Substring0(Trim(notes), NOTES_MAX)

\* --------------------------------------------------------------- documents
\* the defaults of transactionSchema
SchemaDefaults ==
  [userId           |-> NullRef,
   status           |-> "pending",
   verifiedBy       |-> NullRef,
   verifiedAt       |-> NullDate,
   submittedToSwift |-> FALSE,
   submittedAt      |-> NullDate,
   employeeNotes    |-> <<>>]

\* amount, currency, provider, swiftCode, beneficiaryAccount of a well-formed
\* body: required paths of transactionSchema, without a default
PaymentFields ==
  [amount             |-> 100,
   currency           |-> "USD",
   provider           |-> "FNB",
   swiftCode          |-> "FIRNZAJJ",
   beneficiaryAccount |-> "12345678"]

\* new Transaction(args): the paths given in args, the schema default elsewhere
NewDocument(args) ==
  [p \in DOMAIN SchemaDefaults \cup (DOMAIN args \cap DOMAIN PaymentFields) |->
     IF p \in DOMAIN args THEN args[p] ELSE SchemaDefaults[p]]

\* a handler that passes the whole request body to the constructor
CreateArgs_Spread(userId, body) ==
  [p \in DOMAIN body \cup DOMAIN PaymentFields \cup {"userId"} |->
     IF p = "userId" THEN userId ELSE IF p \in DOMAIN body THEN body[p] ELSE PaymentFields[p]]

\* the object the create handler passes to the constructor: userId from the
\* session and amount, currency, provider, swiftCode, beneficiaryAccount from
\* the body; no other field of the body
CreateArgs(userId, body) ==
  [p \in DOMAIN PaymentFields \cup {"userId"} |->
     IF p = "userId" THEN userId ELSE PaymentFields[p]]

\* what a body without extra fields adds to the payment fields
NoExtras == <<>>

\* new Transaction({userId, ...}) with the schema defaults
NewTransaction(userId) == NewDocument(CreateArgs(userId, NoExtras))

\* The paths a handler modified on its in-memory copy, with their new values:
\* Mongoose marks a path modified when the value assigned differs from the
\* loaded one, and save() sends exactly these paths as $set.
Modified(orig, doc) == [p \in {q \in DOMAIN doc : doc[q] # orig[q]} |-> doc[p]]

\* document.save(): the $set is applied to the stored document whatever its
\* current contents are; every path outside the $set is left as it is.
SaveDoc(db, set) == [p \in DOMAIN db |-> IF p \in DOMAIN set THEN set[p] ELSE db[p]]

\* --------------------------------------------------------------- responses
NoResp == [status |-> 0, error |-> "", submittedCount |-> 0]

Ok(code) == [status |-> code, error |-> "", submittedCount |-> 0]

Err(code, msg) == [status |-> code, error |-> msg, submittedCount |-> 0]

ErrUnauthorizedEmployee == "Unauthorized - Employee access required"
ErrUnauthorizedCustomer == "Unauthorized - Please log in"
ErrNotFound             == "Transaction not found"
ErrMustBeVerified       == "Transaction must be verified before submitting to SWIFT"
ErrAlreadySubmitted     == "Transaction already submitted to SWIFT"
ErrIdsRequired          == "Transaction IDs array is required"
ErrNoneVerified         == "No verified transactions found to submit"
ErrCsrf                 == "Invalid CSRF token"

\* `Transaction is already ${transaction.status}`
ErrAlready(status) == <<"Transaction is already", status>>

\* ---------------------------------------------------------------- requests
IdleReq ==
  [pc    |-> "idle",    \* idle -> (save ->) done -> idle
   kind  |-> "none",    \* create | verify | submit | bulk | list | own
   id    |-> 0,         \* req.params.id (create: the new _id)
   set   |-> <<>>,      \* by _id: the $set of each save() that has not landed yet
   count |-> 0,         \* transactions.length of submit-bulk
   rows  |-> <<>>,      \* the _ids of the documents in the body of a customer's list
   extra |-> <<>>,      \* the fields of req.body besides the payment fields
   resp  |-> NoResp]

Done(r, resp) == [r EXCEPT !.pc = "done", !.set = <<>>, !.resp = resp]

\* what is remembered of an accepted submit-bulk request to state its
\* contract: the ids it listed and the collection as its query saw it
NoSnap == [ids |-> {}, tx |-> <<>>]

\* ------------------------------------------------------------------ guards
\* a gate that lets every request pass
requireEmployee_Off(e) == TRUE

\* requireEmployee
requireEmployee(e) == e # NoOne

\* a verify that refuses only submitted transactions
VerifyStateError_Lax(t) == t.status = "submitted"

\* verify: if (transaction.status !== 'pending')
VerifyStateError(t) == t.status # "pending"

\* a submit that refuses only submitted transactions
SubmitNotVerified_Lax(t) == t.status = "submitted"

\* submit: if (transaction.status !== 'verified')
SubmitNotVerified(t) == t.status # "verified"

\* submit: if (transaction.submittedToSwift)
SubmitAlreadySubmitted(t) == t.submittedToSwift

\* submit-bulk: !Array.isArray(transactionIds) || transactionIds.length === 0
BulkIdsMissing(isArray, ids) == ~isArray \/ Len(ids) = 0

\* a query without the status filter
BulkQuery_NoFilter(db, ids) == {t \in DOMAIN db : t \in Range(ids)}

\* submit-bulk: Transaction.find({_id: {$in: transactionIds}, status: 'verified'})
BulkQuery(db, ids) == {t \in DOMAIN db : t \in Range(ids) /\ db[t].status = "verified"}

\* a submit-bulk without the check of an empty result
BulkNoneFound_Never(found) == FALSE

\* submit-bulk: if (transactions.length === 0)
BulkNoneFound(found) == found = {}

\* the in-memory edits of the handlers
\* a verify that stores the notes as they were sent
VerifyEdit_Raw(t, e, at, notes) ==
  [t EXCEPT !.status = "verified", !.verifiedBy = e, !.verifiedAt = at,
            !.employeeNotes = IF notes # <<>> THEN notes ELSE @]

VerifyEdit(t, e, at, notes) ==
  [t EXCEPT !.status = "verified", !.verifiedBy = e, !.verifiedAt = at,
            !.employeeNotes = IF notes # <<>> THEN NormNotes(notes) ELSE @]

SubmitEdit(t, at) ==
  [t EXCEPT !.status = "submitted", !.submittedToSwift = TRUE, !.submittedAt = at]

\* ----------------------------------------------------------------- actions
\* POST /api/transactions by the customer in req.session.user (NoOne: none),
\* with a well-formed body that carries the fields of extra as well
CreateWith(h, u, extra) ==
  /\ req[h].pc = "idle"
  /\ LET r == [IdleReq EXCEPT !.kind = "create", !.extra = extra] IN
     IF u = NoOne
     THEN /\ req' = [req EXCEPT ![h] = Done(r, Err(401, ErrUnauthorizedCustomer))]
          /\ tx' = tx
     ELSE /\ Len(tx) < MaxTx
          /\ tx' = Append(tx, NewDocument(CreateArgs(u, extra)))
          /\ req' = [req EXCEPT ![h] = Done([r EXCEPT !.id = Len(tx) + 1], Ok(201))]
  /\ UNCHANGED <<clientVars, pw, used, snap, now, loginVars, webVars>>

\* POST /api/transactions with the payment fields only
Create(h, u) == CreateWith(h, u, NoExtras)

\* PATCH /:id/verify up to and including the edits of the loaded document
VerifyFind(h, e, id, notes) ==
  /\ req[h].pc = "idle"
  /\ LET r == [IdleReq EXCEPT !.kind = "verify", !.id = id] IN
     req' = [req EXCEPT ![h] =
       IF ~requireEmployee(e) THEN Done(r, Err(401, ErrUnauthorizedEmployee))
       ELSE IF id \notin DOMAIN tx THEN Done(r, Err(404, ErrNotFound))
       ELSE IF VerifyStateError(tx[id]) THEN Done(r, Err(400, ErrAlready(tx[id].status)))
       ELSE [r EXCEPT !.pc = "save",
                      !.set = (id :> Modified(tx[id], VerifyEdit(tx[id], e, now, notes)))]]
  /\ UNCHANGED <<clientVars, pw, used, tx, snap, now, loginVars, webVars>>

\* await transaction.save() of verify, and the response
VerifySave(h) ==
  /\ req[h].pc = "save"
  /\ req[h].kind = "verify"
  /\ LET id == req[h].id IN
     tx' = [tx EXCEPT ![id] = SaveDoc(tx[id], req[h].set[id])]
  /\ req' = [req EXCEPT ![h] = Done(@, Ok(200))]
  /\ UNCHANGED <<clientVars, pw, used, snap, now, loginVars, webVars>>

\* PATCH /:id/submit up to and including the edits of the loaded document
SubmitFind(h, e, id) ==
  /\ req[h].pc = "idle"
  /\ LET r == [IdleReq EXCEPT !.kind = "submit", !.id = id] IN
     req' = [req EXCEPT ![h] =
       IF ~requireEmployee(e) THEN Done(r, Err(401, ErrUnauthorizedEmployee))
       ELSE IF id \notin DOMAIN tx THEN Done(r, Err(404, ErrNotFound))
       ELSE IF SubmitNotVerified(tx[id]) THEN Done(r, Err(400, ErrMustBeVerified))
       ELSE IF SubmitAlreadySubmitted(tx[id]) THEN Done(r, Err(400, ErrAlreadySubmitted))
       ELSE [r EXCEPT !.pc = "save",
                      !.set = (id :> Modified(tx[id], SubmitEdit(tx[id], now)))]]
  /\ UNCHANGED <<clientVars, pw, used, tx, snap, now, loginVars, webVars>>

\* await transaction.save() of submit, and the response
SubmitSave(h) ==
  /\ req[h].pc = "save"
  /\ req[h].kind = "submit"
  /\ LET id == req[h].id IN
     tx' = [tx EXCEPT ![id] = SaveDoc(tx[id], req[h].set[id])]
  /\ req' = [req EXCEPT ![h] = Done(@, Ok(200))]
  /\ UNCHANGED <<clientVars, pw, used, snap, now, loginVars, webVars>>

\* POST /submit-bulk up to and including transactions.map(...): the query,
\* the edits of every document found, and the start of every save()
BulkFind(h, e, isArray, ids) ==
  /\ req[h].pc = "idle"
  /\ LET r     == [IdleReq EXCEPT !.kind = "bulk"]
         found == BulkQuery(tx, ids)
     IN
     req' = [req EXCEPT ![h] =
       IF ~requireEmployee(e) THEN Done(r, Err(401, ErrUnauthorizedEmployee))
       ELSE IF BulkIdsMissing(isArray, ids) THEN Done(r, Err(400, ErrIdsRequired))
       ELSE IF BulkNoneFound(found) THEN Done(r, Err(400, ErrNoneVerified))
       ELSE [r EXCEPT !.pc = "save",
                      !.set = [t \in found |-> Modified(tx[t], SubmitEdit(tx[t], now))],
                      !.count = Cardinality(found)]]
  /\ snap' = [snap EXCEPT ![h] =
       IF req'[h].pc = "save" THEN [ids |-> Range(ids), tx |-> tx] ELSE NoSnap]
  /\ UNCHANGED <<clientVars, pw, used, tx, now, loginVars, webVars>>

\* one of the tx.save() promises of submit-bulk lands; after the last one,
\* Promise.all resolves and the response is sent
BulkSave(h, t) ==
  /\ req[h].pc = "save"
  /\ req[h].kind = "bulk"
  /\ t \in DOMAIN req[h].set
  /\ tx' = [tx EXCEPT ![t] = SaveDoc(tx[t], req[h].set[t])]
  /\ LET left == DOMAIN req[h].set \ {t}
         r    == [req[h] EXCEPT !.set = [u \in left |-> req[h].set[u]]]
     IN
     req' = [req EXCEPT ![h] =
       IF left = {}
       THEN Done(r, [status |-> 200, error |-> "", submittedCount |-> req[h].count])
       ELSE r]
  /\ UNCHANGED <<clientVars, pw, used, snap, now, loginVars, webVars>>

\* the response has been delivered; the handler slot is free again
Finish(h) ==
  /\ req[h].pc = "done"
  /\ req' = [req EXCEPT ![h] = IdleReq]
  /\ snap' = [snap EXCEPT ![h] = NoSnap]
  /\ UNCHANGED <<clientVars, pw, used, tx, now, loginVars, webVars>>

\* time passes
Tick ==
  /\ now < MaxTime
  /\ now' = now + 1
  /\ UNCHANGED <<clientVars, pw, used, tx, req, snap, loginVars, webVars>>

\* ------------------------------------------------------------- strings
UpperCase  == <<"A", "B", "C", "D", "E", "F", "G", "H", "I", "J", "K", "L", "M", "N", "O", "P", "Q", "R", "S", "T", "U", "V", "W", "X", "Y", "Z">>
LowerCase  == <<"a", "b", "c", "d", "e", "f", "g", "h", "i", "j", "k", "l", "m", "n", "o", "p", "q", "r", "s", "t", "u", "v", "w", "x", "y", "z">>
DigitChars == <<"0", "1", "2", "3", "4", "5", "6", "7", "8", "9">>
SpecialChars == {"@", "$", "!", "%", "*", "?", "&"}   \* [@$!%*?&]
WhiteSpace == {" "}                                   \* \s

IndexOf(s, c) == CHOOSE i \in DOMAIN s : s[i] = c
UpperChars == Range(UpperCase)
LowerChars == Range(LowerCase)
Digits     == Range(DigitChars)
IsUpper(c) == c \in UpperChars   \* [A-Z]
IsLower(c) == c \in LowerChars   \* [a-z]
IsDigit(c) == c \in Digits       \* \d, [0-9]
Number(c)  == IndexOf(DigitChars, c) - 1

\* String.prototype.toLowerCase
toLowerCase(s) ==
  [i \in DOMAIN s |-> IF IsUpper(s[i]) THEN LowerCase[IndexOf(UpperCase, s[i])] ELSE s[i]]

\* String.prototype.includes
includes(s, sub) ==
  \E i \in 0..(Len(s) - Len(sub)) : SubSeq(s, i + 1, i + Len(sub)) = sub

\* split('').reverse().join('')
reverse(s) == [i \in DOMAIN s |-> s[Len(s) + 1 - i]]

\* String.prototype.trim
trim(s) ==
  LET kept == {i \in DOMAIN s : s[i] \notin WhiteSpace} IN
  IF kept = {} THEN EmptyString
  ELSE SubSeq(s, CHOOSE i \in kept : \A j \in kept : i <= j,
                 CHOOSE i \in kept : \A j \in kept : j <= i)

\* ------------------------------------------------- password strength
MIN_LENGTH  == 8
MAX_LENGTH  == 128
ScoreStep   == 125    \* 12.5, in tenths of a point
StrongScore == 1000   \* 100, in tenths of a point

commonPasswords ==
  {<<"p", "a", "s", "s", "w", "o", "r", "d">>,
   <<"p", "a", "s", "s", "w", "o", "r", "d", "1", "2", "3">>,
   <<"1", "2", "3", "4", "5", "6">>,
   <<"1", "2", "3", "4", "5", "6", "7", "8", "9">>,
   <<"q", "w", "e", "r", "t", "y">>,
   <<"a", "b", "c", "1", "2", "3">>,
   <<"p", "a", "s", "s", "w", "o", "r", "d", "1">>,
   <<"a", "d", "m", "i", "n">>,
   <<"l", "e", "t", "m", "e", "i", "n">>,
   <<"w", "e", "l", "c", "o", "m", "e">>,
   <<"m", "o", "n", "k", "e", "y">>,
   <<"d", "r", "a", "g", "o", "n">>,
   <<"m", "a", "s", "t", "e", "r">>,
   <<"s", "h", "a", "d", "o", "w">>,
   <<"l", "o", "g", "i", "n">>,
   <<"s", "u", "p", "e", "r", "m", "a", "n">>,
   <<"m", "i", "c", "h", "a", "e", "l">>,
   <<"b", "a", "t", "m", "a", "n">>,
   <<"t", "r", "u", "s", "t", "n", "o", "1">>,
   <<"h", "e", "l", "l", "o">>}

\* the password contains a common one, or a common one contains it
isCommonPassword(password) ==
  \E lowerPassword \in {toLowerCase(password)} : \E common \in commonPasswords :
    \/ includes(lowerPassword, common)
    \/ includes(common, lowerPassword)

personalWords ==
  {<<"b", "i", "r", "t", "h", "d", "a", "y">>,
   <<"n", "a", "m", "e">>,
   <<"a", "d", "d", "r", "e", "s", "s">>,
   <<"p", "h", "o", "n", "e">>,
   <<"e", "m", "a", "i", "l">>}

\* /\d{4}/
HasYear(s) == \E i \in 1..(Len(s) - 3) : \A j \in i..(i + 3) : IsDigit(s[j])

\* /\d{2,4}\/\d{2,4}/
HasDate(s) ==
  \E i \in 3..(Len(s) - 2) :
    /\ s[i] = "/"
    /\ IsDigit(s[i - 2]) /\ IsDigit(s[i - 1])
    /\ IsDigit(s[i + 1]) /\ IsDigit(s[i + 2])

containsPersonalInfo(password) ==
  \/ \E lowerPassword \in {toLowerCase(password)} : \E word \in personalWords :
       includes(lowerPassword, word)
  \/ HasYear(password)
  \/ HasDate(password)

sequences ==
  {<<"a", "b", "c", "d", "e", "f", "g", "h", "i", "j", "k", "l", "m", "n", "o", "p", "q", "r", "s", "t", "u", "v", "w", "x", "y", "z">>,
   <<"q", "w", "e", "r", "t", "y", "u", "i", "o", "p", "a", "s", "d", "f", "g", "h", "j", "k", "l", "z", "x", "c", "v", "b", "n", "m">>,
   <<"0", "1", "2", "3", "4", "5", "6", "7", "8", "9">>}

\* sequence.slice(i, i + 3) for every i, and its reverse
Runs(sequence) ==
  UNION {{SubSeq(sequence, i + 1, i + 3), reverse(SubSeq(sequence, i + 1, i + 3))} :
           i \in 0..(Len(sequence) - 3)}
sequentialRuns == UNION {Runs(sequence) : sequence \in sequences}

hasSequentialChars(password) ==
  \E lowerPassword \in {toLowerCase(password)} : \E subseq \in sequentialRuns :
    includes(lowerPassword, subseq)

\* threshold of the mutant: any positive score
isStrong_Partial(score) == score >= ScoreStep

isStrong(score) == score >= StrongScore

Requirements(password) ==
  [length         |-> Len(password) >= MIN_LENGTH,
   uppercase      |-> \E i \in DOMAIN password : IsUpper(password[i]),
   lowercase      |-> \E i \in DOMAIN password : IsLower(password[i]),
   numbers        |-> \E i \in DOMAIN password : IsDigit(password[i]),
   specialChars   |-> \E i \in DOMAIN password : password[i] \in SpecialChars,
   noCommon       |-> ~isCommonPassword(password),
   noPersonalInfo |-> ~containsPersonalInfo(password),
   noSequential   |-> ~hasSequentialChars(password)]

RequirementOrder ==
  <<"length", "uppercase", "lowercase", "numbers", "specialChars",
    "noCommon", "noPersonalInfo", "noSequential">>

\* the fields of the analysis, from the requirements
Analysis(requirements) ==
  LET passed == {k \in DOMAIN requirements : requirements[k]}
      score  == ScoreStep * Cardinality(passed)
  IN [score        |-> score,
      requirements |-> requirements,
      feedback     |-> SelectSeq(RequirementOrder, LAMBDA k : ~requirements[k]),
      isStrong     |-> isStrong(score)]

analysisOf == [requirements \in [Range(RequirementOrder) -> BOOLEAN] |-> Analysis(requirements)]

analyzePasswordStrength(password) == analysisOf[Requirements(password)]

\* ------------------------------------------------- registration input
validatorCommonPasswords ==
  {<<"p", "a", "s", "s", "w", "o", "r", "d">>,
   <<"1", "2", "3", "4", "5", "6">>,
   <<"1", "2", "3", "4", "5", "6", "7", "8", "9">>,
   <<"q", "w", "e", "r", "t", "y">>,
   <<"a", "b", "c", "1", "2", "3">>,
   <<"p", "a", "s", "s", "w", "o", "r", "d", "1", "2", "3">>,
   <<"a", "d", "m", "i", "n">>,
   <<"l", "e", "t", "m", "e", "i", "n">>,
   <<"w", "e", "l", "c", "o", "m", "e">>,
   <<"m", "o", "n", "k", "e", "y">>}

\* validatePasswordStrength of the validation middleware
validatePasswordStrength(password) ==
  /\ Len(password) >= MIN_LENGTH /\ Len(password) <= MAX_LENGTH
  /\ \E i \in DOMAIN password : IsLower(password[i])
  /\ \E i \in DOMAIN password : IsUpper(password[i])
  /\ \E i \in DOMAIN password : IsDigit(password[i])
  /\ \E i \in DOMAIN password : password[i] \in SpecialChars
  /\ toLowerCase(password) \notin validatorCommonPasswords

RECURSIVE LuhnSum(_, _)
LuhnSum(digits, i) ==
  IF i = 0 THEN 0
  ELSE LuhnSum(digits, i - 1) +
       (IF (i - 1) % 2 = 0 THEN digits[i]
        ELSE IF digits[i] * 2 > 9 THEN digits[i] * 2 - 9 ELSE digits[i] * 2)

\* /^[0-9]{13}$/ and the check digit
validateSAIdNumber(idNumber) ==
  /\ Len(idNumber) = 13
  /\ \A i \in DOMAIN idNumber : IsDigit(idNumber[i])
  /\ LET digits == [i \in DOMAIN idNumber |-> Number(idNumber[i])]
         checkDigit == (10 - (LuhnSum(digits, 12) % 10)) % 10
     IN checkDigit = digits[13]

\* /^[a-zA-Z\s\-']{2,50}$/
FullNamePattern(s) ==
  /\ Len(s) >= 2 /\ Len(s) <= 50
  /\ \A i \in DOMAIN s : IsUpper(s[i]) \/ IsLower(s[i]) \/ s[i] \in WhiteSpace \cup {"-", "'"}

\* /^[0-9]{8,12}$/
AccountNumberPattern(s) ==
  /\ Len(s) >= 8 /\ Len(s) <= 12
  /\ \A i \in DOMAIN s : IsDigit(s[i])

\* /^[a-zA-Z0-9_]{3,30}$/
UsernamePattern(s) ==
  /\ Len(s) >= 3 /\ Len(s) <= 30
  /\ \A i \in DOMAIN s : IsUpper(s[i]) \/ IsLower(s[i]) \/ IsDigit(s[i]) \/ s[i] = "_"

\* ========================================================== customer login
\* The handler of POST /api/auth/login, after the rate limiters and the input
\* validation.  The write-only paths of the user document (lastFailedLogin,
\* lastSuccessfulLogin, lastLoginIP, updatedAt) are left out.
Unset       == -1     \* a path absent from the document (undefined, $unset)
NotANumber  == -2     \* NaN
NoToken     == 0      \* no authToken cookie
Ghost       == "ghost"  \* a username / account number pair of no active user
GoodPassword  == <<"C", "0", "r", "r", "e", "c", "t", "!", "H", "o", "r", "s", "e">>  \* 'C0rrect!Horse'
WrongPassword == <<"W", "r", "0", "n", "g", "!", "P", "a", "s", "s">>       \* 'Wr0ng!Pass'
Passwords   == {GoodPassword, WrongPassword}

Max(a, b) == IF a > b THEN a ELSE b

\* bcrypt keys its cipher with the first 72 bytes of its input
BCRYPT_MAX == 72

\* password + customSalt
Salted(password, customSalt) == password \o customSalt

\* bcrypt.hash(saltedPassword, SALT_ROUNDS)
BcryptHash(salted) == <<"bcrypt", SubSeq(salted, 1, Min(Len(salted), BCRYPT_MAX))>>

\* bcrypt.compare(saltedPassword, storedHash)
BcryptCompare(salted, storedHash) == storedHash = BcryptHash(salted)

\* hashPassword; customSalt is the hex of crypto.randomBytes(32), drawn by the caller
hashPassword(password, customSalt) ==
  [hash |-> BcryptHash(Salted(password, customSalt)), customSalt |-> customSalt]

\* a missing argument is the empty string
verifyPassword(password, storedHash, customSalt) ==
  IF password = EmptyString \/ storedHash = EmptyString \/ customSalt = EmptyString
  THEN FALSE
  ELSE BcryptCompare(Salted(password, customSalt), storedHash)

\* new User({...}) of the registration, with the schema defaults
NewUser(idNumber, accountNumber, passwordData, at) ==
  [isActive      |-> TRUE,
   idNumber      |-> idNumber,
   accountNumber |-> accountNumber,
   passwordHash  |-> passwordData.hash,
   passwordSalt  |-> passwordData.customSalt,
   passwordHistory    |-> <<passwordData>>,
   lastPasswordChange |-> at,
   loginAttempts |-> 0,
   lockoutUntil  |-> Unset,
   lastLoginDate |-> Unset,
   activeSession |-> 0]

\* the customers registered at the start; the custom salt of each is written
\* as one symbol, one per credential
IdNumberOf == [u \in Customers |->
  IF u = "u1" THEN <<"9", "0", "0", "1", "0", "1", "5", "0", "0", "9", "0", "8", "6">> ELSE <<"8", "5", "0", "5", "0", "5", "5", "0", "0", "9", "0", "8", "8">>]
AccountNumberOf == [u \in Customers |->
  IF u = "u1" THEN <<"1", "0", "0", "0", "0", "0", "0", "0", "0", "1">> ELSE <<"1", "0", "0", "0", "0", "0", "0", "0", "0", "2">>]
Registered(u, password) ==
  NewUser(IdNumberOf[u], AccountNumberOf[u], hashPassword(password, <<u>>), 0)

NoUser == [NewUser(EmptyString, EmptyString, hashPassword(EmptyString, <<NoOne>>), Unset)
             EXCEPT !.isActive = FALSE]

\* a document as loaded: the schema default fills an absent loginAttempts
Hydrate(doc) == [doc EXCEPT !.loginAttempts = IF @ = Unset THEN 0 ELSE @]

\* User.findOne({username, accountNumber, isActive: true})
\* a findOne without isActive: true
FindActiveUser_AnyUser(db, name) == name \in DOMAIN db
FindActiveUser(db, name) == name \in DOMAIN db /\ db[name].isActive

\* a lock check that never finds a lock
IsLockedAt_Off(user, t) == FALSE

\* isAccountLocked: user.lockoutUntil && user.lockoutUntil > new Date()
IsLockedAt(user, t) == user.lockoutUntil # Unset /\ user.lockoutUntil > t

\* an expiry that leaves out the instant the lock ends
LockExpiredAt_Strict(user, t) == user.lockoutUntil # Unset /\ user.lockoutUntil < t

\* isAccountLocked: user.lockoutUntil && user.lockoutUntil <= new Date()
LockExpiredAt(user, t) == user.lockoutUntil # Unset /\ user.lockoutUntil <= t

\* an update that unsets the lock and keeps the counter
ClearLock_KeepCount(doc) == [doc EXCEPT !.lockoutUntil = Unset]

\* $unset: {lockoutUntil: 1, loginAttempts: 1}
ClearLock(doc) == [doc EXCEPT !.lockoutUntil = Unset, !.loginAttempts = Unset]

\* a lock that needs one failure more
LockReached_Late(attempts) == attempts > MAX_LOGIN_ATTEMPTS

\* handleFailedLogin: user.loginAttempts >= PASSWORD_CONFIG.MAX_LOGIN_ATTEMPTS
LockReached(attempts) == attempts >= MAX_LOGIN_ATTEMPTS

\* handleFailedLogin: the edits of the freshly loaded document at time t
FailedLoginEdit(user, t) ==
  LET u1 == IF user.lockoutUntil # Unset /\ user.lockoutUntil < t
            THEN [user EXCEPT !.loginAttempts = 0, !.lockoutUntil = Unset]
            ELSE user
      n  == (IF u1.loginAttempts = Unset THEN 0 ELSE u1.loginAttempts) + 1
      u2 == [u1 EXCEPT !.loginAttempts = n]
  IN IF LockReached(n) THEN [u2 EXCEPT !.lockoutUntil = t + LOCKOUT_TIME] ELSE u2

\* UserSchema.pre('save'): clear lockout if expired
PreSave(doc, t) ==
  IF doc.lockoutUntil # Unset /\ doc.lockoutUntil <= t THEN ClearLock(doc) ELSE doc

\* Math.max(0, MAX_LOGIN_ATTEMPTS - user.loginAttempts)
AttemptsRemaining(doc) ==
  IF doc.loginAttempts = Unset THEN NotANumber
  ELSE Max(0, MAX_LOGIN_ATTEMPTS - doc.loginAttempts)

\* the login handler's edits before its final user.save()
LoginEdit(user, t, sessionId) == [user EXCEPT !.lastLoginDate = t, !.activeSession = sessionId]

\* generateJWT(userId, sessionId): the signed payload
Jwt(userId, sessionId, iat) ==
  [userId |-> userId, sessionId |-> sessionId, iat |-> iat, signed |-> TRUE]

\* no authToken cookie and no Authorization header
NoJwt == [userId |-> NoOne, sessionId |-> 0, iat |-> Unset, signed |-> FALSE]

\* a token that was not signed with JWT_SECRET
ForgedJwt == [userId |-> "u1", sessionId |-> 1, iat |-> 0, signed |-> FALSE]

\* jwt.verify: the signature and the expiry
JwtVerify(token, t) == token.signed /\ t < token.iat + JWT_EXPIRY

\* authenticateToken: the status it answers with, 200 standing for next()
authenticateToken(token, t) ==
  IF token = NoJwt THEN 401 ELSE IF ~JwtVerify(token, t) THEN 403 ELSE 200

NoLoginResp == [status |-> 0, error |-> "", message |-> "", attemptsRemaining |-> Unset,
                token |-> NoToken]

\* a 401 that tells a wrong password from an unknown user
LoginInvalid_Told(remaining) ==
  [status |-> 401, error |-> "Authentication failed",
   message |-> IF remaining = Unset THEN "Invalid credentials" ELSE "Wrong password",
   attemptsRemaining |-> remaining, token |-> NoToken]

LoginInvalid(remaining) ==
  [status |-> 401, error |-> "Authentication failed", message |-> "Invalid credentials",
   attemptsRemaining |-> remaining, token |-> NoToken]

LoginLocked ==
  [status |-> 423, error |-> "Account locked",
   message |-> "Account is temporarily locked due to failed login attempts",
   attemptsRemaining |-> Unset, token |-> NoToken]

LoginOk(token) ==
  [status |-> 200, error |-> "", message |-> "Login successful",
   attemptsRemaining |-> Unset, token |-> token]

IdleLogin ==
  [pc        |-> "idle",   \* idle, lockcheck, unlock, verify, failread, failsave,
                           \* reset, finalsave, done
   name      |-> NoOne,    \* the account the request names
   password  |-> EmptyString,  \* req.body.password
   user      |-> NoUser,   \* the document loaded by findOne
   set       |-> <<>>,     \* the $set of the save() that has not landed yet
   at        |-> Unset,    \* handleFailedLogin's now; the iat of generateJWT
   remaining |-> Unset,    \* handleFailedLogin's attemptsRemaining
   token     |-> NoToken,  \* the session id signed into the JWT
   resp      |-> NoLoginResp]

LoginDone(r, resp) ==
  [r EXCEPT !.pc = "done", !.user = NoUser, !.set = <<>>, !.at = Unset,
            !.remaining = Unset, !.token = NoToken, !.resp = resp]

NoStreak == [n |-> 0, at |-> Unset]

\* findOne, and the answer to an unknown or inactive user
LoginFind(h, name, password) ==
  /\ lreq[h].pc = "idle"
  /\ LET r == [IdleLogin EXCEPT !.name = name, !.password = password] IN
     lreq' = [lreq EXCEPT ![h] =
       IF ~FindActiveUser(users, name) THEN LoginDone(r, LoginInvalid(Unset))
       ELSE [r EXCEPT !.pc = "lockcheck", !.user = Hydrate(users[name])]]
  /\ UNCHANGED <<clientVars, pw, used, users, streak, sids, now, ledgerVars, webVars>>

\* isAccountLocked: the read of the document and the verdict
LockRead(h) ==
  /\ lreq[h].pc = "lockcheck"
  /\ LET user == Hydrate(users[lreq[h].name]) IN
     lreq' = [lreq EXCEPT ![h] =
       IF IsLockedAt(user, now) THEN LoginDone(@, LoginLocked)
       ELSE IF LockExpiredAt(user, now) THEN [@ EXCEPT !.pc = "unlock"]
       ELSE [@ EXCEPT !.pc = "verify"]]
  /\ UNCHANGED <<clientVars, pw, used, users, streak, sids, now, ledgerVars, webVars>>

\* isAccountLocked: findByIdAndUpdate of an expired lock
LockClear(h) ==
  /\ lreq[h].pc = "unlock"
  /\ users' = [users EXCEPT ![lreq[h].name] = ClearLock(@)]
  /\ lreq' = [lreq EXCEPT ![h].pc = "verify"]
  /\ UNCHANGED <<clientVars, pw, used, streak, sids, now, ledgerVars, webVars>>

\* verifyPassword against the credential loaded by findOne
PasswordCheck(h) ==
  /\ lreq[h].pc = "verify"
  /\ lreq' = [lreq EXCEPT ![h].pc =
       IF verifyPassword(lreq[h].password, lreq[h].user.passwordHash, lreq[h].user.passwordSalt)
       THEN "reset" ELSE "failread"]
  /\ UNCHANGED <<clientVars, pw, used, users, streak, sids, now, ledgerVars, webVars>>

\* handleFailedLogin up to the call of user.save()
FailRead(h) ==
  /\ lreq[h].pc = "failread"
  /\ LET user   == Hydrate(users[lreq[h].name])
         edited == PreSave(FailedLoginEdit(user, now), now)
     IN
     lreq' = [lreq EXCEPT ![h] =
       [@ EXCEPT !.pc = "failsave", !.set = Modified(user, edited), !.at = now,
                 !.remaining = AttemptsRemaining(edited)]]
  /\ UNCHANGED <<clientVars, pw, used, users, streak, sids, now, ledgerVars, webVars>>

\* handleFailedLogin's save lands; the 401 is sent
FailSave(h) ==
  /\ lreq[h].pc = "failsave"
  /\ users' = [users EXCEPT ![lreq[h].name] = SaveDoc(@, lreq[h].set)]
  /\ streak' = [streak EXCEPT ![lreq[h].name] = [n |-> @.n + 1, at |-> lreq[h].at]]
  /\ lreq' = [lreq EXCEPT ![h] = LoginDone(@, LoginInvalid(lreq[h].remaining))]
  /\ UNCHANGED <<clientVars, pw, used, sids, now, ledgerVars, webVars>>

\* resetFailedAttempts, then the session id and the edits of the document
\* loaded by findOne, up to the call of user.save()
ResetAttempts(h) ==
  /\ lreq[h].pc = "reset"
  /\ sids < MaxLogins
  /\ users' = [users EXCEPT ![lreq[h].name] = ClearLock(@)]
  /\ sids' = sids + 1
  /\ LET user   == lreq[h].user
         edited == PreSave(LoginEdit(user, now, sids + 1), now)
     IN
     lreq' = [lreq EXCEPT ![h] =
       [@ EXCEPT !.pc = "finalsave", !.set = Modified(user, edited), !.token = sids + 1,
                 !.at = now]]
  /\ UNCHANGED <<clientVars, pw, used, streak, now, ledgerVars, webVars>>

\* the login handler's save lands; the cookie is set and the 200 is sent
FinalSave(h) ==
  /\ lreq[h].pc = "finalsave"
  /\ users' = [users EXCEPT ![lreq[h].name] = SaveDoc(@, lreq[h].set)]
  /\ streak' = [streak EXCEPT ![lreq[h].name] = NoStreak]
  /\ lreq' = [lreq EXCEPT ![h] = LoginDone(@, LoginOk(lreq[h].token))]
  /\ jwts' = jwts \cup {Jwt(lreq[h].name, lreq[h].token, lreq[h].at)}
  /\ UNCHANGED <<clientVars, pw, used, sids, now, ledgerVars, emps, sessions, ctok, gone, estreak, web>>

\* the response has been delivered
LoginFinish(h) ==
  /\ lreq[h].pc = "done"
  /\ lreq' = [lreq EXCEPT ![h] = IdleLogin]
  /\ UNCHANGED <<clientVars, pw, used, users, streak, sids, now, ledgerVars, webVars>>

\* isActive, default true: no handler writes it; an account is disabled by an
\* update of the collection from outside
Deactivate(name) ==
  /\ users[name].isActive
  /\ users' = [users EXCEPT ![name].isActive = FALSE]
  /\ UNCHANGED <<clientVars, pw, used, lreq, streak, sids, now, ledgerVars, webVars>>

\* time passes
Wait ==
  /\ now + WaitStep <= MaxClock
  /\ now' = now + WaitStep
  /\ UNCHANGED <<clientVars, pw, used, loginVars, ledgerVars, webVars>>

\* ============================================================ the portal
\* express-session, csurf in cookie mode, and the handlers of the employee and
\* customer portals that resolve a credential.  In the specifications of this
\* part one request is processed at a time, so a handler is one step; web
\* holds the request answered last and its response.
NoSid        == 0              \* no connect.sid cookie
NoSecret     == 0              \* no _csrf cookie
NoCsrfToken  == <<>>           \* no x-csrf-token header
EmpPassword  == <<"E", "m", "p", "l", "o", "y", "e", "e", "1", "2", "3", "!">>  \* 'Employee123!'
EmpPasswords == {EmpPassword, WrongPassword, EmptyString}

\* the employees created by scripts/createEmployee.js
NewEmployee(password) ==
  [isActive      |-> TRUE,
   passwordHash  |-> BcryptHash(password),
   loginAttempts |-> 0,
   lockUntil     |-> Unset,
   lastLoginDate |-> Unset]

\* Employee.findOne({username, isActive: true})
FindActiveEmployee(db, name) == name \in DOMAIN db /\ db[name].isActive

\* req.session of a request without a stored session: nothing in it
NewSession == [live |-> TRUE, employee |-> NoOne, user |-> NoOne]

\* the session middleware: the stored session of the connect.sid cookie
HasSession(store, sid) == sid \in DOMAIN store /\ store[sid].live

LoadSession(store, sid) == IF HasSession(store, sid) THEN store[sid] ELSE NewSession

\* req.session.employee / req.session.user of a request with cookie sid
SessionEmployee(store, sid) == LoadSession(store, sid).employee

SessionUser(store, sid) == LoadSession(store, sid).user

\* csurf with the cookie option: the secret is the _csrf cookie of the
\* request, a token is derived from a secret, and a token is valid for a
\* request when it was derived from the secret in the request's cookie.
CsrfSecrets == 1..MaxSecrets

\* tokens.create(secret)
CsrfToken(secret) == <<"csrf", secret>>

CsrfTokens == {NoCsrfToken} \cup {CsrfToken(k) : k \in CsrfSecrets}

\* tokens.verify(secret, token); without a _csrf cookie the secret is a fresh
\* one, which no token of the request can have been derived from
CsrfVerify(secret, token) == secret # NoSecret /\ token = CsrfToken(secret)

IgnoredMethods == {"GET", "HEAD", "OPTIONS"}

\* a middleware that lets every request pass
csrfProtection_Off(method, secret, token) == TRUE

\* csrfProtection: next() or the EBADCSRFTOKEN error
csrfProtection(method, secret, token) ==
  method \in IgnoredMethods \/ CsrfVerify(secret, token)

\* the CSRF error handler: 403 'Invalid CSRF token'; no handler runs
Forbidden(h, kind, id) ==
  /\ req[h].pc = "idle"
  /\ req' = [req EXCEPT ![h] =
       Done([IdleReq EXCEPT !.kind = kind, !.id = id], Err(403, ErrCsrf))]
  /\ UNCHANGED <<clientVars, pw, used, tx, snap, now, loginVars, webVars>>

\* GET /api/employee/transactions
ListAll(h, e) ==
  /\ req[h].pc = "idle"
  /\ LET r == [IdleReq EXCEPT !.kind = "list"] IN
     req' = [req EXCEPT ![h] =
       IF ~requireEmployee(e) THEN Done(r, Err(401, ErrUnauthorizedEmployee))
       ELSE Done([r EXCEPT !.count = Len(tx)], Ok(200))]
  /\ UNCHANGED <<clientVars, pw, used, tx, snap, now, loginVars, webVars>>

\* a query without the owner filter
OwnQuery_All(db, u) == DOMAIN db

\* Transaction.find({ userId })
OwnQuery(db, u) == {t \in DOMAIN db : db[t].userId = u}

\* .sort({ date: -1 }): the newest document first; date is the time of
\* creation, which grows with the _id
RECURSIVE NewestFirst(_)
NewestFirst(ids) ==
  IF ids = {} THEN <<>>
  ELSE LET newest == CHOOSE t \in ids : \A o \in ids : o <= t
       IN <<newest>> \o NewestFirst(ids \ {newest})

\* GET /api/transactions of the customer in req.session.user; nothing of
\* req.query, req.params or req.body is read
ListOwn(h, u) ==
  /\ req[h].pc = "idle"
  /\ LET r == [IdleReq EXCEPT !.kind = "own"] IN
     req' = [req EXCEPT ![h] =
       IF u = NoOne THEN Done(r, Err(401, ErrUnauthorizedCustomer))
       ELSE LET found == OwnQuery(tx, u) IN
            Done([r EXCEPT !.count = Cardinality(found), !.rows = NewestFirst(found)],
                 Ok(200))]
  /\ UNCHANGED <<clientVars, pw, used, tx, snap, now, loginVars, webVars>>

\* the routes: the middleware in the order of their registration, then the handler
CreateRoute(h, u, secret, token) ==
  IF csrfProtection("POST", secret, token) THEN Create(h, u) ELSE Forbidden(h, "create", 0)

ListOwnRoute(h, u, secret, token) ==
  IF csrfProtection("GET", secret, token) THEN ListOwn(h, u) ELSE Forbidden(h, "own", 0)

VerifyRoute(h, e, secret, token, id, notes) ==
  IF ~requireEmployee(e) \/ csrfProtection("PATCH", secret, token)
  THEN VerifyFind(h, e, id, notes) ELSE Forbidden(h, "verify", id)

SubmitRoute(h, e, secret, token, id) ==
  IF ~requireEmployee(e) \/ csrfProtection("PATCH", secret, token)
  THEN SubmitFind(h, e, id) ELSE Forbidden(h, "submit", id)

BulkRoute(h, e, secret, token, isArray, ids) ==
  IF ~requireEmployee(e) \/ csrfProtection("POST", secret, token)
  THEN BulkFind(h, e, isArray, ids) ELSE Forbidden(h, "bulk", 0)

\* no request body
NoBody ==
  [fullName |-> EmptyString, idNumber |-> EmptyString, accountNumber |-> EmptyString,
   username |-> NoOne, password |-> EmptyString]

\* no change-password body
NoChange == [currentPassword |-> EmptyString, newPassword |-> EmptyString]

Undefined == "undefined"   \* a field absent from a response body

NoWeb ==
  [route     |-> "none",
   status    |-> 0,
   message   |-> "",
   principal |-> NoOne,       \* whom the request was resolved to
   sid       |-> NoSid,       \* the connect.sid cookie of the request
   setSid    |-> NoSid,       \* the connect.sid cookie set by the response
   jwt       |-> NoJwt,       \* the authToken of the request
   secret    |-> NoSecret,    \* the _csrf cookie of the request, or the one set
   csrfToken |-> NoCsrfToken, \* the csrfToken of the response
   feedback  |-> <<>>,        \* the requirements of a 'Weak password' response
   body      |-> NoBody,      \* req.body of a registration
   change    |-> NoChange,    \* req.body of a change-password request
   health    |-> Undefined,   \* the status of a /health response
   database  |-> Undefined]   \* the database of a /health response

WebReq(route, sid) == [NoWeb EXCEPT !.route = route, !.sid = sid]

Answer(r, status, message) == [r EXCEPT !.status = status, !.message = message]

NoEmpStreak == [n |-> 0, at |-> Unset]

\* POST /api/employeeauth/login
EmployeeLogin(name, password, sid) ==
  LET r == [WebReq("employee login", sid) EXCEPT
              !.body = [NoBody EXCEPT !.username = name, !.password = password]]
  IN
  IF name = "" \/ password = EmptyString
  THEN /\ web' = Answer(r, 400, "Username and password are required")
       /\ UNCHANGED <<clientVars, pw, used, emps, sessions, estreak>>
  ELSE IF ~FindActiveEmployee(emps, name)
  THEN /\ web' = Answer(r, 401, "Invalid credentials")
       /\ UNCHANGED <<clientVars, pw, used, emps, sessions, estreak>>
  ELSE IF ~BcryptCompare(password, emps[name].passwordHash)
  THEN /\ estreak[name].n < MaxEmpFails
       /\ web' = Answer(r, 401, "Invalid credentials")
       /\ estreak' = [estreak EXCEPT ![name] = [n |-> @.n + 1, at |-> now]]
       /\ UNCHANGED <<clientVars, pw, used, emps, sessions>>
  ELSE /\ emps' = [emps EXCEPT ![name].lastLoginDate = now]
       /\ estreak' = [estreak EXCEPT ![name] = NoEmpStreak]
       /\ IF HasSession(sessions, sid)
          THEN /\ sessions' = [sessions EXCEPT ![sid].employee = name]
               /\ web' = [Answer(r, 200, "Employee login successful") EXCEPT !.principal = name]
          ELSE /\ Len(sessions) < MaxSessions
               /\ sessions' = Append(sessions, [NewSession EXCEPT !.employee = name])
               /\ web' = [Answer(r, 200, "Employee login successful") EXCEPT
                            !.principal = name, !.setSid = Len(sessions) + 1]

EmployeeLoginStep(name, password, sid) ==
  /\ EmployeeLogin(name, password, sid)
  /\ UNCHANGED <<clientVars, pw, used, ctok, jwts, gone, now, ledgerVars, loginVars>>

\* isActive of an employee, default true, set to false from outside
DeactivateEmployee(name) ==
  /\ emps[name].isActive
  /\ emps' = [emps EXCEPT ![name].isActive = FALSE]
  /\ UNCHANGED <<clientVars, pw, used, sessions, ctok, jwts, gone, estreak, web, now,
                 ledgerVars, loginVars>>

\* the two server files of the repository
ServerFiles == {"server/server.js", "server.js with the employee portal"}

\* mongoose.connection.readyState: disconnected, connected, connecting, disconnecting
ReadyStates == 0..3

\* GET /health of server/server.js: status, timestamp, environment
PlainHealthBody(readyState) == [status |-> "OK", database |-> Undefined]

\* GET /health of the server with the employee portal: database as well
HealthBody(readyState) ==
  [status |-> "OK", database |-> IF readyState = 1 THEN "connected" ELSE "disconnected"]

\* GET /health, mounted before any session or token check
Health(file, readyState, sid) ==
  /\ LET body == IF file = "server/server.js" THEN PlainHealthBody(readyState)
                 ELSE HealthBody(readyState)
     IN
     web' = [Answer(WebReq("health", sid), 200, "") EXCEPT
               !.health = body.status, !.database = body.database]
  /\ UNCHANGED <<clientVars, pw, used, emps, sessions, ctok, jwts, gone, estreak, now,
                 ledgerVars, loginVars>>

\* POST /api/employeeauth/logout: req.session.destroy, clearCookie
EmployeeLogout(sid) ==
  /\ sessions' = IF HasSession(sessions, sid)
                 THEN [sessions EXCEPT ![sid].live = FALSE] ELSE sessions
  /\ web' = [Answer(WebReq("employee logout", sid), 200, "Employee logout successful")
               EXCEPT !.principal = SessionEmployee(sessions, sid)]
  /\ UNCHANGED <<clientVars, pw, used, emps, ctok, jwts, gone, estreak, now, ledgerVars, loginVars>>

\* GET /api/employeeauth/session
EmployeeSession(sid) ==
  /\ LET e == SessionEmployee(sessions, sid)
         r == WebReq("employee session", sid)
     IN
     web' = IF e # NoOne
            THEN [Answer(r, 200, "") EXCEPT !.principal = e]
            ELSE Answer(r, 401, "Not authenticated")
  /\ UNCHANGED <<clientVars, pw, used, emps, sessions, ctok, jwts, gone, estreak, now, ledgerVars, loginVars>>

\* GET /api/employeeauth/csrf-token: csurf takes the secret of the _csrf cookie
\* or, without one, sets the cookie to a new random secret k; req.csrfToken()
\* derives the token from the secret.  The session is not looked at.
CsrfTokenRoute(sid, secret, k) ==
  /\ Cardinality(ctok) < MaxTokens
  /\ LET sec == IF secret # NoSecret THEN secret ELSE k
         ses == IF HasSession(sessions, sid) THEN sid ELSE NoSid
     IN
     /\ ctok' = ctok \cup {[secret |-> sec, sid |-> ses]}
     /\ web' = [Answer(WebReq("csrf-token", sid), 200, "") EXCEPT
                  !.principal = SessionEmployee(sessions, sid),
                  !.secret = sec, !.csrfToken = CsrfToken(sec)]
  /\ UNCHANGED <<clientVars, pw, used, emps, sessions, jwts, gone, estreak, now, ledgerVars, loginVars>>

\* POST /api/auth/logout, behind authenticateToken
CustomerLogout(jwt) ==
  /\ LET r == [WebReq("customer logout", NoSid) EXCEPT !.jwt = jwt]
         a == authenticateToken(jwt, now)
     IN
     IF a = 401
     THEN /\ web' = Answer(r, 401, "No authentication token provided")
          /\ UNCHANGED <<clientVars, pw, used, users, gone>>
     ELSE IF a = 403
     THEN /\ web' = Answer(r, 403, "Authentication token is invalid or expired")
          /\ UNCHANGED <<clientVars, pw, used, users, gone>>
     ELSE /\ users' = [users EXCEPT ![jwt.userId].activeSession = Unset]
          /\ gone' = gone \cup {jwt}
          /\ web' = [Answer(r, 200, "Logout successful") EXCEPT !.principal = jwt.userId]
  /\ UNCHANGED <<clientVars, pw, used, lreq, streak, sids, emps, sessions, ctok, jwts, estreak, now, ledgerVars>>

\* GET /api/auth/security-status, behind authenticateToken
SecurityStatus(jwt) ==
  /\ LET r == [WebReq("security status", NoSid) EXCEPT !.jwt = jwt]
         a == authenticateToken(jwt, now)
     IN
     web' = IF a = 401 THEN Answer(r, 401, "No authentication token provided")
            ELSE IF a = 403 THEN Answer(r, 403, "Authentication token is invalid or expired")
            ELSE [Answer(r, 200, "") EXCEPT !.principal = jwt.userId]
  /\ UNCHANGED <<clientVars, pw, used, emps, sessions, ctok, jwts, gone, estreak, now, ledgerVars, loginVars>>

\* ================================================= the employee client
\* SecurityProvider of the employee portal: employeeUser, the four inactivity
\* timers of timersRef, the latches of alertShownRef, and employeeLogout.
\* Time is in seconds; a timer fires when its delay has passed, and time does
\* not pass a timer that is due.  A state update and the effects of the
\* render that follows it are part of the step that makes the update.
LoginPage     == "/employee/login"
DashboardPage == "/employee/dashboard"

\* the delays of the timers that startInactivityTimer sets
TimerDelays ==
  [warning25 |-> WARNING_25, warning28 |-> WARNING_28,
   warning29 |-> WARNING_29, logout |-> LOGOUT_AT]

\* the latch of alertShownRef that each warning timer tests and sets
LatchOf == [warning25 |-> "warning25", warning28 |-> "warning2", warning29 |-> "warning1"]

NoMonitor ==
  [user    |-> NoOne,      \* employeeUser
   timers  |-> <<>>,       \* timersRef.current: by name, the seconds left of a pending timer
   shown   |-> {},         \* the latches of alertShownRef.current that are true
   kicks   |-> {},         \* the seconds left of each pending setTimeout(employeeLogout, 2000)
   posting |-> 0,          \* calls of employeeLogout that await the POST /logout
   wait    |-> 0,          \* seconds the oldest of them has waited
   page    |-> LoginPage,  \* the route shown
   idle    |-> 0,          \* seconds since the login or the last activity event
   since   |-> "login",    \* which of the two it was: login | activity
   fired   |-> <<>>,       \* the notifications shown since then, in order
   auto    |-> FALSE]      \* the employeeLogout awaited was called by the monitor

\* clearAllTimers
clearAllTimers(m) == [m EXCEPT !.timers = <<>>, !.shown = {}]

\* a restart that leaves the pending timers and sets the missing ones
startInactivityTimer_Keep(m) ==
  [m EXCEPT !.timers = [n \in DOMAIN TimerDelays |->
                          IF n \in DOMAIN m.timers THEN m.timers[n] ELSE TimerDelays[n]]]

\* startInactivityTimer: clearAllTimers, then the four timers
startInactivityTimer(m) == [clearAllTimers(m) EXCEPT !.timers = TimerDelays]

\* the cleanup of the effect on [employeeUser], run by the render that follows
\* a change of employeeUser when the previous value was an employee
EffectCleanup(m, before) == IF before # NoOne THEN clearAllTimers(m) ELSE m

\* employeeLogin (also checkEmployeeSession) with an accepted answer:
\* setEmployeeUser(res.data.employee), startInactivityTimer(); the login page
\* then navigates to the dashboard
MonitorLogin(e) ==
  /\ mon' = [EffectCleanup(startInactivityTimer([mon EXCEPT !.user = e]), mon.user)
               EXCEPT !.page = DashboardPage, !.idle = 0, !.since = "login", !.fired = <<>>]
  /\ UNCHANGED <<cmon, serverVars>>

\* a mousedown, keypress, scroll, touchstart, mousemove or click while the
\* listeners are registered: resetInactivityTimer
Activity ==
  /\ mon.user # NoOne
  /\ mon' = [startInactivityTimer(mon) EXCEPT !.idle = 0, !.since = "activity", !.fired = <<>>]
  /\ UNCHANGED <<cmon, serverVars>>

\* the callback of a timer of timersRef that is due
TimerFire(n) ==
  /\ n \in DOMAIN mon.timers
  /\ mon.timers[n] = 0
  /\ LET left == [k \in DOMAIN mon.timers \ {n} |-> mon.timers[k]]
         m    == [mon EXCEPT !.timers = left]
     IN
     mon' = IF n = "logout"
            THEN [m EXCEPT !.fired = Append(@, n), !.kicks = @ \cup {LOGOUT_DELAY}]
            ELSE IF LatchOf[n] \notin mon.shown
            THEN [m EXCEPT !.fired = Append(@, n), !.shown = @ \cup {LatchOf[n]}]
            ELSE m
  /\ UNCHANGED <<cmon, serverVars>>

\* employeeLogout up to its await
LogoutCall(m, auto) ==
  [m EXCEPT !.posting = @ + 1, !.wait = IF m.posting = 0 THEN 0 ELSE @,
            !.auto = IF m.posting = 0 THEN auto ELSE @ \/ auto]

\* the callback of setTimeout(() => employeeLogout(), 2000) that is due
KickFire ==
  /\ 0 \in mon.kicks
  /\ mon' = LogoutCall([mon EXCEPT !.kicks = @ \ {0}], TRUE)
  /\ UNCHANGED <<cmon, serverVars>>

\* the Logout button of the dashboard
ManualLogout ==
  /\ mon.user # NoOne
  /\ mon.page = DashboardPage
  /\ mon.posting = 0
  /\ mon' = LogoutCall(mon, FALSE)
  /\ UNCHANGED <<cmon, serverVars>>

\* a finally block that runs only after an accepted request
AfterLogoutRequest_OnSuccess(m, ok) ==
  IF ok
  THEN [EffectCleanup(clearAllTimers([m EXCEPT !.user = NoOne]), m.user) EXCEPT !.page = LoginPage]
  ELSE m

\* employeeLogout after its await, whether the request was answered (ok) or
\* failed: setEmployeeUser(null), clearAllTimers(), navigate('/employee/login')
AfterLogoutRequest(m, ok) ==
  [EffectCleanup(clearAllTimers([m EXCEPT !.user = NoOne]), m.user) EXCEPT !.page = LoginPage]

\* the POST /logout of employeeLogout is answered, fails, or times out
LogoutSettle(ok) ==
  /\ mon.posting > 0
  /\ mon' = [AfterLogoutRequest(mon, ok) EXCEPT !.posting = @ - 1, !.wait = 0]
  /\ UNCHANGED <<cmon, serverVars>>

\* one second passes: nothing due is left behind, and a request is settled
\* within the timeout of the client
Tock ==
  /\ \A n \in DOMAIN mon.timers : mon.timers[n] > 0
  /\ 0 \notin mon.kicks
  /\ mon.posting > 0 => mon.wait < REQUEST_TIMEOUT
  /\ mon.user # NoOne \/ mon.kicks # {} \/ mon.posting > 0
  /\ mon.idle < MaxIdle
  /\ mon' = [mon EXCEPT !.timers = [n \in DOMAIN mon.timers |-> mon.timers[n] - 1],
                        !.kicks = {k - 1 : k \in mon.kicks},
                        !.wait = IF mon.posting > 0 THEN @ + 1 ELSE @,
                        !.idle = IF mon.user # NoOne THEN @ + 1 ELSE @]
  /\ UNCHANGED <<cmon, serverVars>>

\* ================================================= the customer client
\* SecurityProvider of the customer portal: setupSessionTimeout runs once, in
\* the effect of the first render, so the closures it creates (the timer
\* callbacks, resetTimeout, the logout they call) hold the sessionTimeout of
\* that render, whatever setSessionTimeout has stored since.  Time is in
\* minutes.  timers holds the minutes left of the pending timers, oldest first.
NoTimer == 0     \* useState(null)

\* clearTimeout(id), id being the position of the timer or NoTimer
ClearTimeout(timers, id) ==
  IF id \in DOMAIN timers
  THEN [i \in 1..(Len(timers) - 1) |-> IF i < id THEN timers[i] ELSE timers[i + 1]]
  ELSE timers

\* the client once mounted: the effect has called setupSessionTimeout
NoCustomerMonitor ==
  [user           |-> NoOne,                 \* user
   timers         |-> <<SESSION_TIMEOUT>>,   \* the timer set by setupSessionTimeout
   sessionTimeout |-> 1,                     \* the state after setSessionTimeout(timeout)
   seen           |-> NoTimer,               \* sessionTimeout in the closures of the first render
   idle           |-> 0,                     \* minutes since the mount or the last activity event
   expired        |-> 0]                     \* 'Session expired' alerts shown

\* login(userData)
CustomerClientLogin(u) ==
  /\ cmon.user = NoOne
  /\ cmon' = [cmon EXCEPT !.user = u]
  /\ UNCHANGED <<mon, serverVars>>

\* resetTimeout, the listener of mousedown, keydown, scroll and touchstart
resetTimeout ==
  /\ Len(cmon.timers) < MaxTimers
  /\ LET kept == ClearTimeout(cmon.timers, cmon.seen) IN
     cmon' = [cmon EXCEPT !.timers = Append(kept, SESSION_TIMEOUT),
                          !.sessionTimeout = Len(kept) + 1,
                          !.idle = 0]
  /\ UNCHANGED <<mon, serverVars>>

\* the callback of a timer that is due: logout(), whose finally block runs
\* whether the POST /auth/logout is answered or fails, and the alert
SessionTimerFire(i) ==
  /\ i \in DOMAIN cmon.timers
  /\ cmon.timers[i] = 0
  /\ cmon.expired < MaxTimers
  /\ LET left == ClearTimeout(cmon.timers, i) IN
     cmon' = [cmon EXCEPT !.user = NoOne,
                          !.timers = ClearTimeout(left, cmon.seen),
                          !.sessionTimeout = IF @ = i THEN NoTimer
                                             ELSE IF @ > i THEN @ - 1 ELSE @,
                          !.expired = @ + 1]
  /\ UNCHANGED <<mon, serverVars>>

\* one minute passes; no timer that is due is left behind
Minute ==
  /\ cmon.timers # <<>>
  /\ \A i \in DOMAIN cmon.timers : cmon.timers[i] > 0
  /\ cmon' = [cmon EXCEPT !.timers = [i \in DOMAIN cmon.timers |-> cmon.timers[i] - 1],
                          !.idle = @ + 1]
  /\ UNCHANGED <<mon, serverVars>>

\* ------------------------------------------------------------ registration
\* the characters of the usernames of the registration requests
Spelling ==
  ("janedoe" :> <<"j", "a", "n", "e", "d", "o", "e">>) @@
  ("jane_d" :> <<"j", "a", "n", "e", "_", "d">>) @@
  ("jd" :> <<"j", "d">>)

SALT_CHARS == 64   \* crypto.randomBytes(32).toString('hex')

\* two outcomes of the random custom salt
SaltA == [i \in 1..SALT_CHARS |-> IF i % 2 = 1 THEN "3" ELSE "f"]
SaltB == [i \in 1..SALT_CHARS |-> IF i % 2 = 1 THEN "c" ELSE "0"]
CustomSalts == {SaltA, SaltB}

\* validateRegistration, handleValidationErrors: the sanitizers trim; no
\* character that inHTMLData rewrites passes the patterns
validateRegistration(body) ==
  /\ FullNamePattern(trim(body.fullName))
  /\ validateSAIdNumber(trim(body.idNumber))
  /\ AccountNumberPattern(trim(body.accountNumber))
  /\ UsernamePattern(trim(Spelling[body.username]))
  /\ validatePasswordStrength(body.password)

\* User.findOne({ $or: [{ username }, { idNumber }, { accountNumber }] })
existingUser(db, username, idNumber, accountNumber) ==
  \E u \in DOMAIN db :
    u = username \/ db[u].idNumber = idNumber \/ db[u].accountNumber = accountNumber

\* POST /api/auth/register, after the rate limiters
Register(body, customSalt) ==
  LET r == [WebReq("register", NoSid) EXCEPT !.body = body]
      idNumber == trim(body.idNumber)
      accountNumber == trim(body.accountNumber)
      passwordAnalysis == analyzePasswordStrength(body.password)
  IN
  IF ~validateRegistration(body)
  THEN /\ web' = Answer(r, 400, "Validation failed")
       /\ UNCHANGED <<users, used>>
  ELSE IF existingUser(users, body.username, idNumber, accountNumber)
  THEN /\ web' = Answer(r, 409, "User with these details already exists")
       /\ UNCHANGED <<users, used>>
  ELSE IF ~passwordAnalysis.isStrong
  THEN /\ web' = [Answer(r, 400, "Weak password") EXCEPT !.feedback = passwordAnalysis.feedback]
       /\ UNCHANGED <<users, used>>
  ELSE /\ used' = (body.username :> <<body.password>>) @@ used
       /\ users' = (body.username :>
                      NewUser(idNumber, accountNumber, hashPassword(body.password, customSalt), now))
                   @@ users
       /\ web' = [Answer(r, 201, "Registration successful") EXCEPT !.principal = body.username]

RegisterStep(body, customSalt) ==
  /\ Register(body, customSalt)
  /\ UNCHANGED <<clientVars, pw, ledgerVars, now, lreq, streak, sids,
                 emps, sessions, ctok, jwts, gone, estreak>>

\* ---------------------------------------------------------- change password
PASSWORD_HISTORY_LENGTH == 5

\* a history that is never cut
PushSlice_NoSlice(history, passwordData) == Append(history, passwordData)

\* $push: { passwordHistory: { $each: [passwordData], $slice: -PASSWORD_HISTORY_LENGTH } }
PushSlice(history, passwordData) ==
  LET pushed == Append(history, passwordData) IN
  SubSeq(pushed, Max(1, Len(pushed) - PASSWORD_HISTORY_LENGTH + 1), Len(pushed))

\* checkPasswordHistory: verifyPassword against each stored hash and salt
checkPasswordHistory(db, userId, newPassword) ==
  /\ userId \in DOMAIN db
  /\ \E i \in DOMAIN db[userId].passwordHistory :
       verifyPassword(newPassword, db[userId].passwordHistory[i].hash,
                      db[userId].passwordHistory[i].customSalt)

\* addToPasswordHistory: findByIdAndUpdate
addToPasswordHistory(db, userId, passwordData) ==
  [db EXCEPT ![userId].passwordHistory = PushSlice(@, passwordData)]

\* a change that returns after the history update, before user.save()
ChangeEdit_HistoryOnly(user, passwordData, t) == user

\* the handler's edits of the loaded document, written by user.save() after
\* the pre-save hook
ChangeEdit(user, passwordData, t) ==
  PreSave([user EXCEPT !.passwordHash = passwordData.hash,
                       !.passwordSalt = passwordData.customSalt,
                       !.lastPasswordChange = t], t)

\* the new passwords of change-password requests
JanePassword == <<"S", "t", "r", "0", "n", "g", "!", "P", "a", "s", "s">>   \* 'Str0ng!Pass'
TrickyPassword == <<"T", "r", "1", "c", "k", "y", "!", "W", "o", "d">>   \* 'Tr1cky!Wod'
BluePassword   == <<"B", "l", "7", "e", "!", "K", "z", "u">>   \* 'Bl7e!Kzu'
GreatPassword  == <<"G", "r", "8", "t", "!", "M", "o", "v">>   \* 'Gr8t!Mov'
WhizPassword   == <<"W", "h", "1", "z", "!", "K", "i", "d">>   \* 'Wh1z!Kid'
Long72 == <<"Z", "u", "7", "!">> \o [i \in 1..68 |-> IF i % 2 = 1 THEN "K" ELSE "w"]   \* 72 characters
Long73 == Long72 \o <<"x">>                                          \* 73 characters

NewPasswords    == {GoodPassword, TrickyPassword, BluePassword, GreatPassword, WhizPassword,
                    Long72, Long73, JanePassword}

\* analyzePasswordStrength(newPassword), evaluated once for each of them
newPasswordAnalysis == [newPassword \in NewPasswords |-> analyzePasswordStrength(newPassword)]

\* POST /api/auth/change-password, after the rate limiter
ChangePassword(jwt, currentPassword, newPassword, customSalt) ==
  LET r == [WebReq("change password", NoSid) EXCEPT
              !.jwt = jwt, !.change = [currentPassword |-> currentPassword,
                                       newPassword |-> newPassword]]
      a == authenticateToken(jwt, now)
      userId == jwt.userId
  IN
  IF a = 401
  THEN /\ web' = Answer(r, 401, "No authentication token provided")
       /\ UNCHANGED <<users, used>>
  ELSE IF a = 403
  THEN /\ web' = Answer(r, 403, "Authentication token is invalid or expired")
       /\ UNCHANGED <<users, used>>
  ELSE IF userId \notin DOMAIN users
  THEN /\ web' = Answer(r, 404, "User not found")
       /\ UNCHANGED <<users, used>>
  ELSE IF ~verifyPassword(currentPassword, users[userId].passwordHash, users[userId].passwordSalt)
  THEN /\ web' = Answer(r, 401, "Current password is incorrect")
       /\ UNCHANGED <<users, used>>
  ELSE IF ~newPasswordAnalysis[newPassword].isStrong
  THEN /\ web' = [Answer(r, 400, "Weak password") EXCEPT
                    !.feedback = newPasswordAnalysis[newPassword].feedback]
       /\ UNCHANGED <<users, used>>
  ELSE IF checkPasswordHistory(users, userId, newPassword)
  THEN /\ web' = Answer(r, 400, "Password previously used")
       /\ UNCHANGED <<users, used>>
  ELSE LET passwordData == hashPassword(newPassword, customSalt) IN
       /\ used' = [used EXCEPT ![userId] = Append(@, newPassword)]
       /\ users' = [addToPasswordHistory(users, userId, passwordData) EXCEPT
                      ![userId] = ChangeEdit(@, passwordData, now)]
       /\ web' = [Answer(r, 200, "Password changed successfully") EXCEPT !.principal = userId]

ChangePasswordStep(jwt, currentPassword, newPassword, customSalt) ==
  /\ ChangePassword(jwt, currentPassword, newPassword, customSalt)
  /\ UNCHANGED <<clientVars, pw, ledgerVars, now, lreq, streak, sids,
                 emps, sessions, ctok, jwts, gone, estreak>>

\* ------------------------------------------------------- create-test-user.js
TestPassword == <<"T", "e", "s", "t", "P", "a", "s", "s", "1", "2", "3", "!">>   \* 'TestPass123!'

\* bcrypt.genSalt(12): '$2a$12$' and 22 characters
GenSalt == <<"$", "2", "a", "$", "1", "2", "$">> \o [i \in 1..22 |-> IF i % 2 = 1 THEN "N" ELSE "9"]

\* createTestUser: bcrypt.hash('TestPass123!', salt), passwordSalt: salt
TestIdNumber      == <<"9", "0", "0", "1", "0", "1", "5", "0", "8", "1", "0", "8", "9">>   \* '9001015081089'
TestAccountNumber == <<"1", "2", "3", "4", "5", "6", "7", "8", "9", "0">>   \* '1234567890'

\* createTestUser: bcrypt.hash('TestPass123!', salt), passwordSalt: salt; an
\* existing testuser, or a save that the unique indexes refuse, creates nothing
createTestUser ==
  /\ IF existingUser(users, "testuser", TestIdNumber, TestAccountNumber)
     THEN UNCHANGED <<users, used>>
     ELSE /\ users' = ("testuser" :>
                         [NewUser(TestIdNumber, TestAccountNumber,
                                  [hash |-> BcryptHash(TestPassword), customSalt |-> GenSalt], now)
                            EXCEPT !.passwordHistory = <<>>])
                      @@ users
          /\ used' = ("testuser" :> <<TestPassword>>) @@ used
  /\ UNCHANGED <<clientVars, pw, ledgerVars, now, lreq, streak, sids, webVars>>

\* ------------------------------------------------------ password utilities
NoCall ==
  [op         |-> "none",
   password   |-> EmptyString,   \* the password hashed last
   hash       |-> EmptyString,   \* its hash
   customSalt |-> EmptyString,   \* its custom salt
   tried      |-> <<>>,          \* the arguments of the last verifyPassword
   verified   |-> FALSE]         \* what it returned

\* const passwordData = await hashPassword(password)
HashPassword(password, customSalt) ==
  /\ pw' = [NoCall EXCEPT !.op = "hash", !.password = password,
                          !.hash = hashPassword(password, customSalt).hash,
                          !.customSalt = customSalt]
  /\ UNCHANGED <<clientVars, used, ledgerVars, now, loginVars, webVars>>

\* await verifyPassword(password, storedHash, customSalt)
VerifyPassword(password, storedHash, customSalt) ==
  /\ pw.op # "none"
  /\ pw' = [pw EXCEPT !.op = "verify",
                      !.tried = <<password, storedHash, customSalt>>,
                      !.verified = verifyPassword(password, storedHash, customSalt)]
  /\ UNCHANGED <<clientVars, used, ledgerVars, now, loginVars, webVars>>

\* -------------------------------------------------------------------- Init
Init ==
  /\ tx = <<>>
  /\ req = [h \in Handlers |-> IdleReq]
  /\ snap = [h \in Handlers |-> NoSnap]
  /\ now = 0
  /\ users = [u \in Customers |-> Registered(u, GoodPassword)]
  /\ lreq = [h \in Handlers |-> IdleLogin]
  /\ streak = [u \in Customers |-> NoStreak]
  /\ sids = 0
  /\ emps = [e \in Employees |-> NewEmployee(EmpPassword)]
  /\ sessions = <<>>
  /\ ctok = {}
  /\ jwts = {}
  /\ gone = {}
  /\ estreak = [e \in Employees |-> NoEmpStreak]
  /\ web = NoWeb
  /\ mon = NoMonitor
  /\ cmon = NoCustomerMonitor
  /\ pw = NoCall
  /\ used = [u \in Customers |-> <<GoodPassword>>]

\* ------------------------------------------------------------ request inputs
SessionEmployees == Employees \cup {NoOne}
SessionCustomers == Customers \cup {NoOne}
OneCustomer      == {"u1", NoOne}
RequestIds       == TxIds
NotesInputs      == SeqsUpTo(NoteChars, MaxNoteLen)
IdLists          == SeqsUpTo(TxIds, MaxIds)

StartCreate(h, principals) == \E u \in principals : Create(h, u)

StartVerify(h) ==
  \E e \in SessionEmployees, id \in RequestIds, notes \in NotesInputs : VerifyFind(h, e, id, notes)

StartSubmit(h) == \E e \in SessionEmployees, id \in RequestIds : SubmitFind(h, e, id)

StartBulk(h) ==
  \E e \in SessionEmployees, isArray \in BOOLEAN, ids \in IdLists :
    /\ (~isArray => ids = <<>>)
    /\ BulkFind(h, e, isArray, ids)

ContinueBulk(h) == \E t \in TxIds : BulkSave(h, t)

\* ------------------------------------------------------------ specifications
\* Requests interleave at their awaits.  The requests are those that the
\* CSRF middleware lets pass; the ones it rejects are in CsrfLedgerSpec.
LedgerNext ==
  \/ \E h \in Handlers : Len(tx) < MaxRaceTx /\ StartCreate(h, OneCustomer)
  \/ \E h \in Handlers : StartVerify(h)
  \/ \E h \in Handlers : VerifySave(h)
  \/ \E h \in Handlers : StartSubmit(h)
  \/ \E h \in Handlers : SubmitSave(h)
  \/ \E h \in Handlers : StartBulk(h)
  \/ \E h \in Handlers : ContinueBulk(h)
  \/ \E h \in Handlers : Finish(h)
  \/ Tick

LedgerSpec == Init /\ [][LedgerNext]_vars

\* The routes of the ledger with their CSRF middleware: every request brings a
\* _csrf cookie and an x-csrf-token header, or lacks them.
CsrfCookies   == {NoSecret} \cup CsrfSecrets
RouteIds      == 1..(MaxRaceTx + 1)
RouteIdLists  == SeqsUpTo(1..MaxRaceTx, MaxRaceTx)
RouteNotes    == {<<>>}

StartCreateRoute(h) ==
  \E u \in OneCustomer, secret \in CsrfCookies, token \in CsrfTokens :
    CreateRoute(h, u, secret, token)

StartListOwnRoute(h) ==
  \E u \in OneCustomer, secret \in CsrfCookies, token \in CsrfTokens :
    ListOwnRoute(h, u, secret, token)

StartListAll(h) == \E e \in SessionEmployees : ListAll(h, e)

StartVerifyRoute(h) ==
  \E e \in SessionEmployees, secret \in CsrfCookies, token \in CsrfTokens,
     id \in RouteIds, notes \in RouteNotes :
    VerifyRoute(h, e, secret, token, id, notes)

StartSubmitRoute(h) ==
  \E e \in SessionEmployees, secret \in CsrfCookies, token \in CsrfTokens, id \in RouteIds :
    SubmitRoute(h, e, secret, token, id)

StartBulkRoute(h) ==
  \E e \in SessionEmployees, secret \in CsrfCookies, token \in CsrfTokens, ids \in RouteIdLists :
    BulkRoute(h, e, secret, token, TRUE, ids)

CsrfLedgerNext ==
  \/ \E h \in Handlers : Len(tx) < MaxRaceTx /\ StartCreateRoute(h)
  \/ \E h \in Handlers : StartListOwnRoute(h)
  \/ \E h \in Handlers : StartListAll(h)
  \/ \E h \in Handlers : StartVerifyRoute(h)
  \/ \E h \in Handlers : VerifySave(h)
  \/ \E h \in Handlers : StartSubmitRoute(h)
  \/ \E h \in Handlers : SubmitSave(h)
  \/ \E h \in Handlers : StartBulkRoute(h)
  \/ \E h \in Handlers : ContinueBulk(h)
  \/ \E h \in Handlers : Finish(h)

CsrfLedgerSpec == Init /\ [][CsrfLedgerNext]_vars

\* One request at a time: a request starts only when no other is in flight
\* and the previous response has been delivered.
Quiet == \A h \in Handlers : req[h].pc = "idle"

SeqLedgerNext ==
  \/ \E h \in Handlers : Quiet /\ StartCreate(h, OneCustomer)
  \/ \E h \in Handlers : Quiet /\ StartVerify(h)
  \/ \E h \in Handlers : VerifySave(h)
  \/ \E h \in Handlers : Quiet /\ StartSubmit(h)
  \/ \E h \in Handlers : SubmitSave(h)
  \/ \E h \in Handlers : Quiet /\ StartBulk(h)
  \/ \E h \in Handlers : ContinueBulk(h)
  \/ \E h \in Handlers : Finish(h)
  \/ Tick

SeqLedgerSpec == Init /\ [][SeqLedgerNext]_vars

\* The customers' side of the ledger: both customers create transactions and
\* list their own while employees verify; a list request may carry any query
\* parameters (a userId, a transaction id), which the handler does not read.
BodyExtras ==
  {[status |-> "verified"],
   [status |-> "submitted", verifiedBy |-> "e1", verifiedAt |-> 0,
    submittedToSwift |-> TRUE, submittedAt |-> 0]}

StartCreateWith(h) ==
  \E u \in SessionCustomers :
    \/ CreateWith(h, u, NoExtras)
    \/ \E extra \in BodyExtras : CreateWith(h, u, extra)

StartOwnList(h) ==
  \E u \in SessionCustomers, userId \in Customers, id \in RequestIds : ListOwn(h, u)

OwnListNext ==
  \/ \E h \in Handlers : Len(tx) <= MaxRaceTx /\ StartCreateWith(h)
  \/ \E h \in Handlers : StartOwnList(h)
  \/ \E h \in Handlers : StartVerify(h)
  \/ \E h \in Handlers : VerifySave(h)
  \/ \E h \in Handlers : Finish(h)

OwnListSpec == Init /\ [][OwnListNext]_vars

\* One customer login at a time; time may pass between its steps.
LoginNames == {"u1", Ghost}

StartLogin(h) == \E name \in LoginNames, password \in Passwords : LoginFind(h, name, password)

LoginQuiet == \A h \in Handlers : lreq[h].pc = "idle"

SeqLoginNext ==
  \/ \E h \in Handlers : LoginQuiet /\ StartLogin(h)
  \/ \E h \in Handlers : LockRead(h)
  \/ \E h \in Handlers : LockClear(h)
  \/ \E h \in Handlers : PasswordCheck(h)
  \/ \E h \in Handlers : FailRead(h)
  \/ \E h \in Handlers : FailSave(h)
  \/ \E h \in Handlers : ResetAttempts(h)
  \/ \E h \in Handlers : FinalSave(h)
  \/ \E h \in Handlers : LoginFinish(h)
  \/ Wait

SeqLoginSpec == Init /\ [][SeqLoginNext]_vars

\* Failed customer logins whose handlers interleave at their awaits.
StartFailedLogin(h) == \E name \in LoginNames : LoginFind(h, name, WrongPassword)

FailRaceNext ==
  \/ \E h \in Handlers : StartFailedLogin(h)
  \/ \E h \in Handlers : LockRead(h)
  \/ \E h \in Handlers : LockClear(h)
  \/ \E h \in Handlers : PasswordCheck(h)
  \/ \E h \in Handlers : FailRead(h)
  \/ \E h \in Handlers : FailSave(h)
  \/ \E h \in Handlers : LoginFinish(h)
  \/ Wait

FailRaceSpec == Init /\ [][FailRaceNext]_vars

\* One employee login or logout at a time; time may pass between them.
EmpLoginNames == {"e1", Ghost}

SidCookies == 0..MaxSessions

StartEmployeeLogin ==
  \E name \in EmpLoginNames, password \in EmpPasswords, sid \in SidCookies :
    sid <= Len(sessions) /\ EmployeeLoginStep(name, password, sid)

StartEmployeeLogout == \E sid \in SidCookies : sid <= Len(sessions) /\ EmployeeLogout(sid)

EmpLoginNext ==
  \/ StartEmployeeLogin
  \/ StartEmployeeLogout
  \/ Wait

EmpLoginSpec == Init /\ [][EmpLoginNext]_vars


\* The employee portal with its sessions: logins, logouts, the token
\* endpoint, and the verify route of the employee of the request's session.
\* The customer of a create request is an input, as in the ledger specifications.
StartCsrfLogin ==
  \E name \in EmpLoginNames, sid \in SidCookies :
    sid <= Len(sessions) /\ EmployeeLoginStep(name, EmpPassword, sid)

StartCsrfToken ==
  \E sid \in SidCookies, secret \in CsrfCookies, k \in CsrfSecrets :
    sid <= Len(sessions) /\ CsrfTokenRoute(sid, secret, k)

TokensHandedOut == {NoCsrfToken} \cup {CsrfToken(t.secret) : t \in ctok}

StartSessionVerify(h) ==
  \E sid \in SidCookies, secret \in CsrfCookies, token \in TokensHandedOut,
     id \in RouteIds, notes \in RouteNotes :
    /\ sid <= Len(sessions)
    /\ VerifyRoute(h, SessionEmployee(sessions, sid), secret, token, id, notes)

CsrfSessionNext ==
  \/ StartCsrfLogin
  \/ StartEmployeeLogout
  \/ StartCsrfToken
  \/ \E h \in Handlers : Quiet /\ Len(tx) < MaxRaceTx /\ StartCreateRoute(h)
  \/ \E h \in Handlers : Quiet /\ StartSessionVerify(h)
  \/ \E h \in Handlers : VerifySave(h)
  \/ \E h \in Handlers : Finish(h)

CsrfSessionSpec == Init /\ [][CsrfSessionNext]_vars

\* Both portals, one request at a time and the clock standing still: customers
\* log in with the right password and log out, employees log in and log out,
\* and every request brings the cookies it likes among those handed out.
PortalQuiet == Quiet /\ LoginQuiet

AuthTokens == jwts \cup {NoJwt, ForgedJwt}

StartGoodLogin(h) == \E name \in LoginNames : LoginFind(h, name, GoodPassword)

StartCustomerLogout == \E jwt \in AuthTokens : CustomerLogout(jwt)

StartSecurityStatus == \E jwt \in AuthTokens : SecurityStatus(jwt)

StartEmployeeSession == \E sid \in SidCookies : sid <= Len(sessions) /\ EmployeeSession(sid)

StartPortalCreate(h) ==
  \E sid \in SidCookies, secret \in CsrfCookies, token \in CsrfTokens :
    sid <= Len(sessions) /\ CreateRoute(h, SessionUser(sessions, sid), secret, token)

StartPortalListOwn(h) ==
  \E sid \in SidCookies, secret \in CsrfCookies, token \in CsrfTokens :
    sid <= Len(sessions) /\ ListOwnRoute(h, SessionUser(sessions, sid), secret, token)

StartPortalListAll(h) ==
  \E sid \in SidCookies : sid <= Len(sessions) /\ ListAll(h, SessionEmployee(sessions, sid))

PortalNext ==
  \/ \E h \in Handlers : PortalQuiet /\ StartGoodLogin(h)
  \/ \E h \in Handlers : LockRead(h)
  \/ \E h \in Handlers : PasswordCheck(h)
  \/ \E h \in Handlers : ResetAttempts(h)
  \/ \E h \in Handlers : FinalSave(h)
  \/ \E h \in Handlers : LoginFinish(h)
  \/ PortalQuiet /\ StartCustomerLogout
  \/ PortalQuiet /\ StartSecurityStatus
  \/ \E h \in Handlers : PortalQuiet /\ StartPortalCreate(h)
  \/ \E h \in Handlers : PortalQuiet /\ StartPortalListOwn(h)
  \/ \E h \in Handlers : PortalQuiet /\ StartPortalListAll(h)
  \/ \E h \in Handlers : Finish(h)
  \/ PortalQuiet /\ StartCsrfLogin
  \/ PortalQuiet /\ StartEmployeeLogout
  \/ PortalQuiet /\ StartEmployeeSession

PortalSpec == Init /\ [][PortalNext]_vars

\* The employee client: logins, activity events, the timers, and time.
MonitorUsers == {"e1"}

MonitorNext ==
  \/ \E e \in MonitorUsers : MonitorLogin(e)
  \/ Activity
  \/ \E n \in DOMAIN TimerDelays : TimerFire(n)
  \/ KickFire
  \/ ManualLogout
  \/ \E ok \in BOOLEAN : LogoutSettle(ok)
  \/ Tock

MonitorSpec == Init /\ [][MonitorNext]_vars

\* The same with the guarantees of the browser: time passes, a timer that is
\* due fires, and a request is settled.  Activity events and logins are up to
\* the employee.
MonitorLiveSpec ==
  /\ MonitorSpec
  /\ WF_vars(Tock)
  /\ WF_vars(\E n \in DOMAIN TimerDelays : TimerFire(n))
  /\ WF_vars(KickFire)
  /\ WF_vars(\E ok \in BOOLEAN : LogoutSettle(ok))

\* The customer client: logins, activity events, the timers, and time.
CustomerMonitorNext ==
  \/ \E u \in Customers : CustomerClientLogin(u)
  \/ resetTimeout
  \/ \E i \in 1..MaxTimers : SessionTimerFire(i)
  \/ Minute

CustomerMonitorSpec == Init /\ [][CustomerMonitorNext]_vars

\* Registrations, one request at a time: the request of the example, and
\* requests that differ from it in the name, the numbers or the password.
JaneIdNumber == <<"8", "0", "0", "1", "0", "1", "5", "0", "0", "9", "0", "8", "7">>   \* '8001015009087'
JaneDoe ==
  [fullName      |-> <<"J", "a", "n", "e", " ", "D", "o", "e">>,
   idNumber      |-> JaneIdNumber,
   accountNumber |-> <<"1", "2", "3", "4", "5", "6", "7", "8", "9">>,
   username      |-> "janedoe",
   password      |-> JanePassword]

JaneStrong == [JaneDoe EXCEPT !.password = GoodPassword]
OtherIdNumber      == <<"7", "5", "0", "3", "1", "5", "5", "0", "0", "9", "0", "8", "3">>
OtherAccountNumber == <<"2", "2", "3", "4", "5", "6", "7", "8", "9">>

RegisterNames     == {"janedoe", "jane_d", "jd"}
RegisterFullNames == {JaneDoe.fullName, <<"J">>}
RegisterIdNumbers ==
  {JaneIdNumber,
   <<" ">> \o JaneIdNumber,          \* padded: trimmed by the sanitizer
   OtherIdNumber,
   <<"8", "0", "0", "1", "0", "1", "5", "0", "0", "9", "0", "8", "0">>,   \* a wrong check digit
   IdNumberOf["u1"]}
RegisterAccountNumbers ==
  {JaneDoe.accountNumber, OtherAccountNumber, <<"1", "2", "3", "4", "5", "6", "7">>, AccountNumberOf["u1"]}
RegisterPasswords ==
  {JanePassword, GoodPassword,
   <<"T", "r", "1", "c", "k", "y", "!", "W", "o", "d">>,   \* 'Tr1cky!Wod'
   <<"S", "h", "0", "r", "t", "!", "a">>,   \* 'Sh0rt!a'
   <<"N", "o", "D", "i", "g", "i", "t", "!", "x", "w">>,   \* 'NoDigit!xw'
   <<"D", "r", "a", "g", "o", "n", "7", "!", "x", "w">>,   \* 'Dragon7!xw'
   <<"M", "y", "N", "a", "m", "e", "!", "7", "x", "w">>,   \* 'MyName!7xw'
   <<"W", "o", "d", "!", "2", "0", "2", "4", "T", "r">>,   \* 'Wod!2024Tr'
   <<"X", "a", "b", "c", "!", "7", "W", "o", "d">>}   \* 'Xabc!7Wod'

\* two people with a strong password, and the requests that differ from
\* Jane Doe's in one field
RegisterBodies ==
  [fullName : {JaneDoe.fullName}, idNumber : {JaneIdNumber, OtherIdNumber},
   accountNumber : {JaneDoe.accountNumber, OtherAccountNumber},
   username : {"janedoe", "jane_d"}, password : {GoodPassword}]
  \cup {[JaneDoe EXCEPT !.password = p] : p \in RegisterPasswords}
  \cup {[JaneStrong EXCEPT !.idNumber = i] : i \in RegisterIdNumbers}
  \cup {[JaneStrong EXCEPT !.accountNumber = a] : a \in RegisterAccountNumbers}
  \cup {[JaneStrong EXCEPT !.username = n] : n \in RegisterNames}
  \cup {[JaneStrong EXCEPT !.fullName = f] : f \in RegisterFullNames}

RegisterNext == \E body \in RegisterBodies, customSalt \in CustomSalts : RegisterStep(body, customSalt)

RegisterSpec == Init /\ [][RegisterNext]_vars

\* The password utilities on their own: passwords the policy accepts, of the
\* lengths around the limits, hashed and then verified with every combination
\* of a right, a wrong and a missing argument.
LongPassword(n) ==
  [i \in 1..n |-> IF i <= 4 THEN <<"Z", "u", "7", "!">>[i]
                  ELSE IF i % 2 = 1 THEN "K" ELSE "w"]
PolicyLengths  == {MIN_LENGTH, BCRYPT_MAX - 1, BCRYPT_MAX, BCRYPT_MAX + 1, MAX_LENGTH}
PolicyPasswords == {GoodPassword, <<"T", "r", "1", "c", "k", "y", "!", "W", "o", "d">>} \cup {LongPassword(n) : n \in PolicyLengths}
TriedPasswords == {pw.password, pw.password \o <<"x">>, WrongPassword, EmptyString}
TriedHashes    == {pw.hash, <<"bcrypt">>, EmptyString}
TriedSalts     == {pw.customSalt, reverse(pw.customSalt), EmptyString}

HashNext ==
  \/ \E password \in PolicyPasswords, customSalt \in CustomSalts :
       HashPassword(password, customSalt)
  \/ \E password \in TriedPasswords, storedHash \in TriedHashes, customSalt \in TriedSalts :
       VerifyPassword(password, storedHash, customSalt)

HashSpec == Init /\ [][HashNext]_vars

\* ------------------------------------------------ change-password requests
MaxUsed   == 6   \* passwords one customer sets, the registration's included
MaxReused == 8   \* the same, where an evicted password is tried again

ChangeSalts     == {SaltA}
ChangeCustomer  == "u1"
CustomerToken   == Jwt(ChangeCustomer, 1, 0)
RefusedTokens   == {NoJwt, ForgedJwt, Jwt(Ghost, 1, 0)}
Last(s)         == s[Len(s)]
\* what the customer types as the current password: the one set last, or a wrong one
CurrentPasswords == {Last(used[ChangeCustomer]), WrongPassword}

ChangeRequests(max) ==
  \/ \E currentPassword \in CurrentPasswords, newPassword \in NewPasswords,
        customSalt \in ChangeSalts :
       /\ ChangePasswordStep(CustomerToken, currentPassword, newPassword, customSalt)
       /\ Len(used'[ChangeCustomer]) <= max
  \/ \E jwt \in RefusedTokens, customSalt \in ChangeSalts :
       ChangePasswordStep(jwt, GoodPassword, TrickyPassword, customSalt)

ChangeNext == ChangeRequests(MaxUsed)
ChangeSpec == Init /\ [][ChangeNext]_vars

ReuseNext == ChangeRequests(MaxReused)
ReuseSpec == Init /\ [][ReuseNext]_vars

\* ------------------------------------------- creation of customer credentials
CreateNext ==
  \/ \E body \in RegisterBodies, customSalt \in CustomSalts : RegisterStep(body, customSalt)
  \/ createTestUser

CreateSpec == Init /\ [][CreateNext]_vars

\* ------------------------------------------------- logins and disabled accounts
\* One login at a time, of a customer or of an employee; accounts are disabled
\* between logins.
AccessNext ==
  \/ \E h \in Handlers : LoginQuiet /\ StartLogin(h)
  \/ \E h \in Handlers : LockRead(h)
  \/ \E h \in Handlers : PasswordCheck(h)
  \/ \E h \in Handlers : FailRead(h)
  \/ \E h \in Handlers : FailSave(h)
  \/ \E h \in Handlers : ResetAttempts(h)
  \/ \E h \in Handlers : FinalSave(h)
  \/ \E h \in Handlers : LoginFinish(h)
  \/ LoginQuiet /\ StartEmployeeLogin
  \/ \E name \in LoginNames \cap Customers : LoginQuiet /\ Deactivate(name)
  \/ \E name \in EmpLoginNames \cap Employees : LoginQuiet /\ DeactivateEmployee(name)

AccessSpec == Init /\ [][AccessNext]_vars

\* --------------------------------------------------- verification with notes
\* One request at a time: creations, submissions and verifications whose notes
\* are absent, blank, padded, or longer than the limit.
PaddedNotes == <<" ", "o", "k", " ", " ">>
LongNotes   == <<" ">> \o [i \in 1..(NOTES_MAX + 2) |-> IF i % 7 = 0 THEN " " ELSE "n"]
VerifyNotes == {<<>>, <<" ">>, PaddedNotes, LongNotes}

MaxNoted    == 2   \* transactions created where verifications carry notes
OneEmployee == {"e1", NoOne}

StartNotedVerify(h) ==
  \E e \in OneEmployee, id \in RequestIds, notes \in VerifyNotes : VerifyFind(h, e, id, notes)

StartNotedSubmit(h) == \E e \in OneEmployee, id \in RequestIds : SubmitFind(h, e, id)

VerifyNext ==
  \/ \E h \in Handlers : Quiet /\ Len(tx) < MaxNoted /\ StartCreate(h, OneCustomer)
  \/ \E h \in Handlers : Quiet /\ StartNotedVerify(h)
  \/ \E h \in Handlers : VerifySave(h)
  \/ \E h \in Handlers : Quiet /\ StartNotedSubmit(h)
  \/ \E h \in Handlers : SubmitSave(h)
  \/ \E h \in Handlers : Finish(h)

VerifySpec == Init /\ [][VerifyNext]_vars

\* ------------------------------------------------------------- health checks
\* Employee logins and logouts, and health checks with or without a session
\* cookie, whatever the state of the database connection.
StartHealth ==
  \E file \in ServerFiles, readyState \in ReadyStates, sid \in SidCookies :
    sid <= Len(sessions) /\ Health(file, readyState, sid)

HealthNext ==
  \/ StartEmployeeLogin
  \/ StartEmployeeLogout
  \/ StartHealth

HealthSpec == Init /\ [][HealthNext]_vars

\* ===================================================================== claims
Forward == {<<"pending", "verified">>, <<"verified", "submitted">>}

\* handler h has answered with status code c
Answered(h, kind, c) ==
  /\ req[h].pc = "done"
  /\ req[h].kind = kind
  /\ req[h].resp.status = c

\* handler h has reported the submission of transaction t as a success
ReportedSubmit(h, t) ==
  \/ Answered(h, "submit", 200) /\ req[h].id = t
  \/ Answered(h, "bulk", 200) /\ t \in snap[h].ids /\ t \in DOMAIN snap[h].tx
                              /\ snap[h].tx[t].status = "verified"

\* C1: every change of a transaction's status is pending->verified or
\* verified->submitted, under any interleaving of the handlers' steps.
C1_StatusForwardOnly ==
  [][\A t \in DOMAIN tx :
       tx'[t].status # tx[t].status => <<tx[t].status, tx'[t].status>> \in Forward]_vars

\* C2: of the submit requests (single or bulk) processed concurrently for one
\* transaction, at most one reports success.
C2_OneSubmitWins ==
  \A t \in DOMAIN tx : \A h1, h2 \in Handlers :
    ReportedSubmit(h1, t) /\ ReportedSubmit(h2, t) => h1 = h2

\* C3: verifiedBy and verifiedAt are null while the status is pending and,
\* once written, never change.
C3_VerifiedOnce ==
  [][\A t \in DOMAIN tx :
       /\ tx[t].status = "pending" => tx[t].verifiedBy = NullRef /\ tx[t].verifiedAt = NullDate
       /\ tx[t].verifiedBy # NullRef =>
            tx'[t].verifiedBy = tx[t].verifiedBy /\ tx'[t].verifiedAt = tx[t].verifiedAt]_vars

\* C4: submittedToSwift is true exactly when the status is submitted (and then
\* submittedAt is set); it turns true only in a step from status verified and
\* never turns false again.
C4_SwiftFlagIffSubmitted ==
  [][\A t \in DOMAIN tx :
       /\ tx[t].submittedToSwift <=> tx[t].status = "submitted"
       /\ tx'[t].submittedToSwift <=> tx'[t].status = "submitted"
       /\ tx'[t].submittedToSwift => tx'[t].submittedAt # NullDate
       /\ ~tx[t].submittedToSwift /\ tx'[t].submittedToSwift => tx[t].status = "verified"
       /\ tx[t].submittedToSwift => tx'[t].submittedToSwift]_vars

\* C5: a verify request of an authenticated employee that finds the transaction
\* verified or submitted is answered 400 "Transaction is already <status>",
\* ends there, and leaves the collection as it is.
C5_ReverifyFails ==
  [][\A h \in Handlers, e \in Employees, id \in TxIds, notes \in NotesInputs :
       (/\ VerifyFind(h, e, id, notes)
        /\ id \in DOMAIN tx
        /\ tx[id].status \in {"verified", "submitted"})
       => /\ req'[h].pc = "done"
          /\ req'[h].resp = Err(400, ErrAlready(tx[id].status))
          /\ tx' = tx]_vars

C5_Witness ==
  \E h \in Handlers :
    /\ Answered(h, "verify", 400)
    /\ req[h].resp.error \in {ErrAlready("verified"), ErrAlready("submitted")}
    /\ tx[req[h].id].status \in {"verified", "submitted"}
    /\ tx[req[h].id].employeeNotes # <<>>

\* C6: a single submit request of an authenticated employee that finds the
\* transaction pending or submitted is answered 400, ends there, and leaves
\* the collection as it is; no save of a single submit lands on a pending
\* transaction.
C6_SubmitNeedsVerified ==
  [][/\ \A h \in Handlers, e \in Employees, id \in TxIds :
          (/\ SubmitFind(h, e, id)
           /\ id \in DOMAIN tx
           /\ tx[id].status \in {"pending", "submitted"})
          => /\ req'[h].pc = "done"
             /\ req'[h].resp.status = 400
             /\ tx' = tx
     /\ \A h \in Handlers :
          SubmitSave(h) => tx[req[h].id].status # "pending"]_vars

C6_Witness ==
  \E h \in Handlers :
    /\ Answered(h, "submit", 400)
    /\ req[h].resp.error = ErrMustBeVerified
    /\ tx[req[h].id].status = "pending"

\* C7: submit answers "must be verified" on a pending transaction and
\* "already submitted" on a submitted one.
C7_SubmitErrorsDistinct ==
  [][\A h \in Handlers, e \in Employees, id \in TxIds :
       (SubmitFind(h, e, id) /\ id \in DOMAIN tx)
       => /\ tx[id].status = "pending" => req'[h].resp = Err(400, ErrMustBeVerified)
          /\ tx[id].status = "submitted" => req'[h].resp = Err(400, ErrAlreadySubmitted)]_vars

\* C8: when submit-bulk has answered, exactly the listed transactions that
\* were verified are submitted, submittedCount is the number of transactions
\* whose status changed, and every other transaction is as it was.
C8_BulkSubmitsExactlyVerified ==
  \A h \in Handlers :
    Answered(h, "bulk", 200) =>
      LET before == snap[h].tx
          listed == snap[h].ids
      IN
      /\ DOMAIN tx = DOMAIN before
      /\ \A t \in DOMAIN tx :
           IF t \in listed /\ before[t].status = "verified"
           THEN /\ tx[t].status = "submitted"
                /\ tx[t].submittedToSwift
                /\ tx[t].submittedAt # NullDate
           ELSE tx[t] = before[t]
      /\ req[h].resp.submittedCount =
           Cardinality({t \in DOMAIN tx : tx[t].status # before[t].status})

C8_Witness ==
  \E h \in Handlers :
    /\ Answered(h, "bulk", 200)
    /\ req[h].resp.submittedCount = 1
    /\ snap[h].ids = {1, 2, 3}
    /\ \E a, b, c \in DOMAIN snap[h].tx :
         /\ snap[h].tx[a].status = "verified" /\ tx[a].status = "submitted"
         /\ snap[h].tx[b].status = "pending" /\ tx[b].status = "pending"
         /\ snap[h].tx[c].status = "submitted" /\ tx[c].status = "submitted"

\* C9: a submit-bulk request is either answered with an error at once, the
\* collection left as it is, or it listed at least one transaction that its
\* query saw in status verified: a request whose id list is not an array, is
\* empty, or lists no verified transaction fails as a whole.
C9_BulkNothingEligible ==
  [][\A h \in Handlers :
       (req[h].pc = "idle" /\ req'[h].kind = "bulk") =>
         IF \E t \in snap'[h].ids : t \in DOMAIN tx /\ tx[t].status = "verified"
         THEN req'[h].pc = "save"
         ELSE /\ req'[h].pc = "done"
              /\ req'[h].resp.status \in {400, 401}
              /\ req'[h].resp.error \in {ErrIdsRequired, ErrNoneVerified, ErrUnauthorizedEmployee}
              /\ tx' = tx]_vars

C9_Witness ==
  \E h \in Handlers :
    /\ Answered(h, "bulk", 400)
    /\ req[h].resp.error = ErrNoneVerified
    /\ \E a, b \in DOMAIN tx : tx[a].status = "pending" /\ tx[b].status = "submitted"

\* C10: a customer login that reaches the lock check after exactly 5 failed
\* logins in a row (no successful one between them) and less than 30 minutes
\* after the fifth is answered 423 "Account locked" whatever its password,
\* without a token and without verifying the password.
C10_LockedAfterFiveFailures ==
  [][\A h \in Handlers :
       (/\ lreq[h].pc = "lockcheck"
        /\ lreq'[h] # lreq[h]
        /\ streak[lreq[h].name].n = 5
        /\ now < streak[lreq[h].name].at + 30)
       => /\ lreq'[h].pc = "done"
          /\ lreq'[h].resp.status = 423
          /\ lreq'[h].resp.error = "Account locked"
          /\ lreq'[h].resp.token = NoToken
          /\ users' = users]_vars

C10_Witness ==
  \E h \in Handlers :
    /\ lreq[h].pc = "done"
    /\ lreq[h].resp.status = 423
    /\ lreq[h].password = GoodPassword
    /\ streak[lreq[h].name].n = 5
    /\ now > streak[lreq[h].name].at
    /\ now < streak[lreq[h].name].at + 30

\* C11: an employee login that arrives after 6 failed logins in a row and less
\* than 30 minutes after the sixth is refused whatever its password: it is not
\* answered 200 and puts no employee into a session; once the 30 minutes are
\* over a correct password succeeds and leaves loginAttempts at 0.
C11_EmployeeLockedAfterSix ==
  [][\A name \in Employees :
       /\ (/\ web'.route = "employee login"
           /\ estreak'[name] # estreak[name] \/ web'.principal = name
           /\ estreak[name].n >= 6
           /\ now < estreak[name].at + 30)
          => /\ web'.status # 200
             /\ sessions' = sessions
       /\ (/\ estreak[name].n >= 6
           /\ now >= estreak[name].at + 30
           /\ \E sid \in SidCookies : EmployeeLoginStep(name, EmpPassword, sid))
          => /\ web'.status = 200
             /\ emps'[name].loginAttempts = 0]_vars

\* C12: a customer login that reaches the lock check while the stored
\* lockoutUntil is later than now is answered 423 at once, without the password
\* being verified, and leaves the user document (loginAttempts, lockoutUntil)
\* as it is.
C12_LockedAttemptChangesNothing ==
  [][\A h \in Handlers :
       (/\ lreq[h].pc = "lockcheck"
        /\ lreq'[h] # lreq[h]
        /\ users[lreq[h].name].lockoutUntil # Unset
        /\ users[lreq[h].name].lockoutUntil > now)
       => /\ lreq'[h].pc = "done"
          /\ lreq'[h].resp = LoginLocked
          /\ users'[lreq[h].name].loginAttempts = users[lreq[h].name].loginAttempts
          /\ users'[lreq[h].name].lockoutUntil = users[lreq[h].name].lockoutUntil]_vars

C12_Witness ==
  \E h \in Handlers :
    /\ lreq[h].pc = "done"
    /\ lreq[h].resp = LoginLocked
    /\ lreq[h].password = WrongPassword
    /\ users[lreq[h].name].loginAttempts = 5
    /\ users[lreq[h].name].lockoutUntil > now
    /\ users[lreq[h].name].lockoutUntil < now + 30

\* C13: once resetFailedAttempts of a successful customer login has run, and
\* after the handler's final save, the stored loginAttempts is 0 or absent and
\* the stored lockoutUntil is absent.
C13_SuccessResetsCounter ==
  \A h \in Handlers :
    (\/ lreq[h].pc = "finalsave"
     \/ lreq[h].pc = "done" /\ lreq[h].resp.status = 200)
    => /\ users[lreq[h].name].loginAttempts \in {0, Unset}
       /\ users[lreq[h].name].lockoutUntil = Unset

C13_Witness ==
  \E h \in Handlers :
    /\ lreq[h].pc = "finalsave"
    /\ streak[lreq[h].name].n \in 1..4
    /\ lreq[h].user.loginAttempts = streak[lreq[h].name].n
    /\ users[lreq[h].name].loginAttempts = Unset

\* C14: a customer login that loaded a user with a lock and passed the lock
\* check (the lock was at or before now) verifies the password against a
\* cleared record: a wrong password leaves loginAttempts 1 and no lock, a
\* correct one is answered 200.
C14_ExpiredLockSelfClears ==
  [][\A h \in Handlers :
       LET name == lreq[h].name IN
       lreq[h].user.lockoutUntil # Unset =>
         /\ lreq'[h].pc = "verify" =>
              /\ users'[name].loginAttempts \in {0, Unset}
              /\ users'[name].lockoutUntil = Unset
         /\ (lreq[h].pc = "verify" /\ lreq'[h] # lreq[h]) =>
              lreq'[h].pc = (IF lreq[h].password = GoodPassword THEN "reset" ELSE "failread")
         /\ (lreq[h].pc = "failsave" /\ lreq'[h].pc = "done") =>
              /\ users'[name].loginAttempts = 1
              /\ users'[name].lockoutUntil = Unset
              /\ lreq'[h].resp.status = 401
         /\ (lreq[h].pc = "finalsave" /\ lreq'[h].pc = "done") =>
              lreq'[h].resp.status = 200]_vars

C14_Witness ==
  \E h \in Handlers :
    /\ lreq[h].pc = "done"
    /\ lreq[h].resp.status = 401
    /\ lreq[h].name \in Customers
    /\ streak[lreq[h].name].n = 6
    /\ users[lreq[h].name].loginAttempts = 1
    /\ users[lreq[h].name].lockoutUntil = Unset

\* C15: when no failed login is in flight, the stored loginAttempts is the
\* number of failed logins processed since the account was created (up to 5),
\* and the account is locked once that number is 5.
C15_CounterCountsEveryFailure ==
  \A name \in Customers :
    ((\A h \in Handlers : lreq[h].pc \in {"idle", "done"}) /\ streak[name].n <= 5)
    => /\ Hydrate(users[name]).loginAttempts = streak[name].n
       /\ streak[name].n = 5 => users[name].lockoutUntil # Unset

C17_CsrfTokenBoundToSession ==
  [][\A h \in Handlers :
       req[h].pc = "idle" /\ req'[h].kind = "verify" =>
         \A sid \in DOMAIN sessions, secret \in CsrfSecrets, notes \in RouteNotes :
           (/\ HasSession(sessions, sid)
            /\ SessionEmployee(sessions, sid) # NoOne
            /\ \E t \in ctok : t.secret = secret
            /\ \A t \in ctok : t.secret = secret => t.sid \notin {sid, NoSid}
            /\ VerifyRoute(h, SessionEmployee(sessions, sid), secret, CsrfToken(secret),
                           req'[h].id, notes))
           => req'[h].resp = Err(403, ErrCsrf)]_vars

\* C18: a request that presents a credential whose logout has completed is
\* resolved as unauthenticated: an authToken presented to a completed logout
\* is answered 401 or 403 by the endpoints behind authenticateToken, and the
\* connect.sid of a destroyed session resolves to no employee.
C18_LoggedOutCredentialIsDead ==
  [][/\ \A jwt \in gone :
          /\ SecurityStatus(jwt) => web'.status \in {401, 403}
          /\ CustomerLogout(jwt) => web'.status \in {401, 403}
     /\ \A sid \in DOMAIN sessions :
          ~sessions[sid].live =>
            /\ EmployeeSession(sid) => web'.status = 401
            /\ \A h \in Handlers :
                 ListAll(h, SessionEmployee(sessions, sid)) => req'[h].resp.status = 401]_vars

\* C19: a logout that follows a successful logout and brings no credential is
\* answered 200 as well and changes neither the users nor the sessions.
C19_LogoutTwice ==
  [][/\ (web.route = "customer logout" /\ web.status = 200 /\ CustomerLogout(NoJwt))
        => web'.status = 200 /\ users' = users
     /\ (web.route = "employee logout" /\ web.status = 200 /\ EmployeeLogout(NoSid))
        => web'.status = 200 /\ sessions' = sessions]_vars

\* C20: once a customer has logged in and not logged out, a create request with
\* a valid CSRF token is answered 201 and appends a transaction of that
\* customer, and a list request is answered 200.
C20_LoginOpensTransactionEndpoints ==
  [][\A h \in Handlers, jwt \in jwts \ gone :
       req[h].pc = "idle" /\ req'[h].kind \in {"create", "own"} =>
         \A sid \in DOMAIN sessions \cup {NoSid}, secret \in CsrfSecrets :
           /\ CreateRoute(h, SessionUser(sessions, sid), secret, CsrfToken(secret))
              => /\ req'[h].resp.status = 201
                 /\ tx' = Append(tx, NewTransaction(jwt.userId))
           /\ ListOwnRoute(h, SessionUser(sessions, sid), secret, CsrfToken(secret))
              => req'[h].resp.status = 200]_vars

\* C21: a customer's list request answered under the session of customer a
\* returns only transactions whose owner is a, whatever the ledger holds and
\* whatever query parameters the request carries.
C21_ListReturnsOwnOnly ==
  [][\A h \in Handlers, a \in Customers :
       ListOwn(h, a) =>
         /\ req'[h].resp.status = 200
         /\ \A i \in DOMAIN req'[h].rows :
              /\ req'[h].rows[i] \in DOMAIN tx
              /\ tx[req'[h].rows[i]].userId = a]_vars

C21_Witness ==
  \E h \in Handlers :
    /\ Answered(h, "own", 200)
    /\ req[h].rows # <<>>
    /\ \A i \in DOMAIN req[h].rows : req[h].rows[i] \in DOMAIN tx
    /\ \E t \in DOMAIN tx : tx[t].userId # tx[req[h].rows[1]].userId

\* what a request's session may hold: an employee, a customer, both or neither
RoleSessions == [employee : SessionEmployees, user : SessionCustomers]

C23_CreatedPending ==
  [][\A h \in Handlers :
       (req[h].pc = "idle" /\ req'[h].kind = "create" /\ req'[h].resp.status = 201) =>
         /\ Len(tx') = Len(tx) + 1
         /\ req'[h].id = Len(tx')
         /\ \A u \in Customers :
              CreateWith(h, u, req'[h].extra) =>
                LET t == tx'[Len(tx')] IN
                /\ t.userId = u
                /\ t.status = "pending"
                /\ t.verifiedBy = NullRef
                /\ t.verifiedAt = NullDate
                /\ t.submittedToSwift = FALSE
                /\ t.submittedAt = NullDate]_vars

C23_Witness ==
  \E h \in Handlers :
    /\ Answered(h, "create", 201)
    /\ req[h].extra # NoExtras
    /\ req[h].extra.status = "submitted"
    /\ tx[req[h].id].status = "pending"
    /\ tx[req[h].id].verifiedBy = NullRef
    /\ tx[req[h].id].userId = "u2"

\* C24: an activity event observed while an employee is logged in restarts the
\* four timers with their full delays and clears the latches, and after an
\* activity event the monitor does not call employeeLogout before 30 minutes
\* have passed without another one.
C24_ActivityResetsMonitor ==
  [][/\ Activity => mon'.timers = TimerDelays /\ mon'.shown = {}
     /\ (KickFire /\ mon.user # NoOne /\ mon.since = "activity") => mon.idle >= LOGOUT_AT]_vars

\* the notifications in the order of their thresholds
Thresholds == <<"warning25", "warning28", "warning29", "logout">>

\* C26: the notifications shown since the login or the last activity event
\* are the first ones of 25-minute warning, 28-minute warning, 29-minute
\* final warning, logout notice, in this order and each once; a notification
\* is shown only when the delay of its timer has passed since then, and an
\* activity event leaves no timer pending with less than its full delay.
C26_ThresholdsInOrder ==
  [][/\ mon'.fired = SubSeq(Thresholds, 1, Len(mon'.fired))
     /\ \A n \in DOMAIN TimerDelays :
          (TimerFire(n) /\ mon'.fired # mon.fired) =>
            /\ mon'.fired = Append(mon.fired, n)
            /\ mon.idle = TimerDelays[n]
     /\ \A n \in DOMAIN mon'.timers : mon'.timers[n] + mon'.idle = TimerDelays[n]]_vars

C26_Witness ==
  /\ mon.fired = Thresholds
  /\ mon.since = "activity"
  /\ mon.idle = LOGOUT_AT
  /\ mon.user # NoOne

\* the client after employeeLogout: no employee, no timer, the login page
LoggedOut ==
  /\ mon.user = NoOne
  /\ mon.timers = <<>>
  /\ mon.shown = {}
  /\ mon.page = LoginPage

\* C25: when an employee is logged in and more than 30 minutes have passed
\* since the login or the last activity event, employeeLogout is eventually
\* called and leaves the client without employee and without timers, on the
\* employee login page, whether the POST /logout was answered or failed.
C25_IdleEmployeeLoggedOut ==
  (mon.user # NoOne /\ mon.idle > LOGOUT_AT) ~> LoggedOut

\* C27: in the customer client at most one logout timer is pending, an activity
\* event leaves exactly one, set to 30 minutes, and a logout timer fires only
\* when 30 minutes have passed since the mount or the last activity event.
C27_OneSessionTimer ==
  [][/\ Len(cmon'.timers) <= 1
     /\ resetTimeout => cmon'.timers = <<SESSION_TIMEOUT>>
     /\ \A i \in DOMAIN cmon.timers :
          SessionTimerFire(i) => cmon.idle >= SESSION_TIMEOUT]_vars

\* ------------------------------------------------------------------- C28
\* C28: the registration of 'Jane Doe' (idNumber '8001015009087',
\* accountNumber '123456789', username 'janedoe', password 'Str0ng!Pass'),
\* sent when no user has these details, is answered 201 and stores the user;
\* sent again when a user with this idNumber exists, it is answered 409.
C28_JaneDoeRegisters ==
  [][\A customSalt \in CustomSalts :
       RegisterStep(JaneDoe, customSalt) =>
         IF existingUser(users, JaneDoe.username, JaneDoe.idNumber, JaneDoe.accountNumber)
         THEN web'.status = 409 /\ users' = users
         ELSE web'.status = 201 /\ "janedoe" \in DOMAIN users']_vars

\* ------------------------------------------------------------------- C29
\* C29: a register request whose password analyzePasswordStrength does not
\* find strong is rejected and leaves the users collection as it was, and a
\* password is found strong only when every one of the requirements holds.
C29_WeakPasswordRejected ==
  [][(\E customSalt \in CustomSalts : RegisterStep(web'.body, customSalt)) =>
         \A analysis \in {analyzePasswordStrength(web'.body.password)} :
         /\ ~analysis.isStrong => (web'.status \in {400, 409} /\ users' = users)
         /\ analysis.isStrong => \A k \in DOMAIN analysis.requirements : analysis.requirements[k]
         /\ web'.status = 201 => \A k \in DOMAIN analysis.requirements : analysis.requirements[k]]_vars

\* a password that fails one requirement of eight has been refused as weak
C29_Witness ==
  /\ web.route = "register"
  /\ web.status = 400
  /\ web.message = "Weak password"
  /\ Len(web.feedback) = 1

\* ------------------------------------------------------------------- C30
\* C30: after hashPassword(P) of a password P the policy accepts,
\* verifyPassword(P, hash, customSalt) is true and
\* verifyPassword(P + 'x', hash, customSalt) is false; verifyPassword is false
\* whenever an argument is missing or the hash does not match.
C30_VerifyRoundTrip ==
  pw.op = "verify" =>
    /\ pw.tried = <<pw.password, pw.hash, pw.customSalt>> => pw.verified
    /\ pw.tried = <<pw.password \o <<"x">>, pw.hash, pw.customSalt>> => ~pw.verified
    /\ (\E i \in 1..3 : pw.tried[i] = EmptyString) => ~pw.verified
    /\ pw.tried[2] # pw.hash => ~pw.verified

\* the stored credential of a customer, as a history entry
Credential(user) == [hash |-> user.passwordHash, customSalt |-> user.passwordSalt]

\* a change-password step answering the request recorded in web'
ChangeStepTaken ==
  \E jwt \in {web'.jwt}, change \in {web'.change}, customSalt \in ChangeSalts :
    ChangePasswordStep(jwt, change.currentPassword, change.newPassword, customSalt)

\* C31: after a registration and any number of successful password changes the
\* history holds at most five entries and its last entry is the current
\* credential; each successful change appends the new credential and, once five
\* are held, evicts the oldest
C31_HistoryFifo ==
  /\ [](\A u \in DOMAIN users :
          /\ Len(users[u].passwordHistory) \in 1..PASSWORD_HISTORY_LENGTH
          /\ Last(users[u].passwordHistory) = Credential(users[u]))
  /\ [][(ChangeStepTaken /\ web'.status = 200) =>
          \A old \in {users[web'.principal].passwordHistory} :
            users'[web'.principal].passwordHistory
              = (IF Len(old) < PASSWORD_HISTORY_LENGTH THEN old ELSE Tail(old))
                  \o <<Credential(users'[web'.principal])>>]_vars

\* five entries are held and the registration's credential has been evicted
C31_Witness ==
  /\ Len(users[ChangeCustomer].passwordHistory) = PASSWORD_HISTORY_LENGTH
  /\ Len(used[ChangeCustomer]) > PASSWORD_HISTORY_LENGTH
  /\ users[ChangeCustomer].passwordHistory[1] # Credential(Registered(ChangeCustomer, GoodPassword))

\* the passwords whose credentials the stored history holds: the last five set
Held(u) ==
  SubSeq(used[u], Max(1, Len(used[u]) - PASSWORD_HISTORY_LENGTH + 1), Len(used[u]))

\* C32: a change-password request that reaches the history check is rejected as
\* reused when its new password is one of those held in the stored history, the
\* current one included, and accepted when the password was set before and has
\* been evicted; it is rejected as reused exactly when the new password
\* verifies against a stored hash and salt
C32_ReuseRejectedEvictedAccepted ==
  [][(ChangeStepTaken /\ web'.message \in {"Password previously used",
                                             "Password changed successfully"}) =>
       \A u \in {web'.jwt.userId}, newPassword \in {web'.change.newPassword} :
         /\ newPassword \in Range(Held(u)) => web'.message = "Password previously used"
         /\ newPassword \in Range(used[u]) \ Range(Held(u))
              => web'.message = "Password changed successfully"
         /\ web'.message = "Password previously used"
              <=> \E i \in DOMAIN users[u].passwordHistory :
                    verifyPassword(newPassword, users[u].passwordHistory[i].hash,
                                   users[u].passwordHistory[i].customSalt)]_vars

C39_CreatedCredentialVerifies ==
  \A u \in DOMAIN users :
    verifyPassword(Last(used[u]), users[u].passwordHash, users[u].passwordSalt)

\* C33: the CSRF-token endpoint has answered with a token only requests that
\* carried the session of an authenticated principal
C33_CsrfTokenNeedsSession ==
  (web.route = "csrf-token" /\ web.csrfToken # NoCsrfToken) => web.principal # NoOne

\* a finished customer login that named no user or carried a password
\* that does not verify, on an account that was not locked
FailedLogin(h) ==
  /\ lreq[h].pc = "done"
  /\ lreq[h].resp # LoginLocked
  /\ \/ lreq[h].name \notin DOMAIN users
     \/ ~verifyPassword(lreq[h].password, users[lreq[h].name].passwordHash,
                        users[lreq[h].name].passwordSalt)

\* an answered employee login with a username and a password that named no
\* employee or carried a password that does not compare
FailedEmployeeLogin ==
  /\ web.route = "employee login"
  /\ web.body.username # "" /\ web.body.password # EmptyString
  /\ \/ web.body.username \notin DOMAIN emps
     \/ ~BcryptCompare(web.body.password, emps[web.body.username].passwordHash)

\* C34: a failed login on an unlocked account is answered with the same status,
\* error and message whether the username is unknown or the password wrong,
\* for customers and for employees; only attemptsRemaining may differ
C34_SameAnswerUnknownOrWrong ==
  /\ \A h \in Handlers :
       FailedLogin(h) =>
         [lreq[h].resp EXCEPT !.attemptsRemaining = Unset] = LoginInvalid(Unset)
  /\ FailedEmployeeLogin =>
       /\ web.status = 401 /\ web.message = "Invalid credentials"
       /\ web.principal = NoOne /\ web.setSid = NoWeb.setSid

\* a customer's wrong password and an employee login of an unknown username
\* have been answered
C34_Witness ==
  /\ \E h \in Handlers :
       /\ FailedLogin(h) /\ lreq[h].name \in DOMAIN users
       /\ lreq[h].resp.attemptsRemaining # Unset
  /\ FailedEmployeeLogin
  /\ web.body.username \notin DOMAIN emps

\* C37: a login that names a disabled customer or employee is answered as one
\* that names an unknown user, whatever its password, and changes neither the
\* collection (loginAttempts, lastLoginDate) nor the sessions; every login that
\* succeeds is one of an active principal
C37_InactiveNeverLogsIn ==
  /\ [](\A h \in Handlers :
          (lreq[h].pc # "idle" /\ lreq[h].name \in DOMAIN users
             /\ ~users[lreq[h].name].isActive)
            => lreq[h].pc = "done" /\ lreq[h].resp = LoginInvalid(Unset))
  /\ [][\A h \in Handlers :
          /\ (lreq[h].pc = "idle" /\ lreq'[h].pc # "idle"
                /\ ~FindActiveUser(users, lreq'[h].name))
               => users' = users /\ jwts' = jwts /\ sids' = sids
          /\ (lreq[h].pc # "done" /\ lreq'[h].pc = "done" /\ lreq'[h].resp.status = 200)
               => users[lreq'[h].name].isActive]_vars
  /\ [][\A name \in EmpLoginNames, password \in EmpPasswords, sid \in SidCookies :
          EmployeeLoginStep(name, password, sid) =>
            /\ (name \in DOMAIN emps /\ ~emps[name].isActive) =>
                 /\ web'.status = IF password = EmptyString THEN 400 ELSE 401
                 /\ web'.message = IF password = EmptyString
                                   THEN "Username and password are required"
                                   ELSE "Invalid credentials"
                 /\ web'.principal = NoOne
                 /\ emps' = emps /\ sessions' = sessions
            /\ web'.status = 200 => emps[name].isActive]_vars

\* a disabled customer and a disabled employee have each been refused a login
\* with the correct password
C37_Witness ==
  /\ \E h \in Handlers :
       /\ lreq[h].pc = "done" /\ lreq[h].name \in DOMAIN users
       /\ ~users[lreq[h].name].isActive
       /\ lreq[h].password = GoodPassword
       /\ lreq[h].resp = LoginInvalid(Unset)
  /\ web.route = "employee login" /\ web.status = 401
  /\ web.body.username \in DOMAIN emps
  /\ ~emps[web.body.username].isActive
  /\ web.body.password = EmpPassword

\* the paths of a transaction that a verification may write
VerifyPaths == {"status", "verifiedBy", "verifiedAt", "employeeNotes"}

\* s without its leading and trailing blanks, cut to n characters
IsTrimmedCut(s, notes, n) ==
  /\ Len(s) <= n
  /\ s # <<>> => s[1] # " "
  /\ \E lead \in 0..Len(notes) :
       /\ \A i \in 1..lead : notes[i] = " "
       /\ lead + Len(s) <= Len(notes)
       /\ s = SubSeq(notes, lead + 1, lead + Len(s))
       /\ Len(s) < n => \A i \in (lead + Len(s) + 1)..Len(notes) : notes[i] = " "
       /\ (Len(s) < n /\ s # <<>>) => s[Len(s)] # " "

\* C36: the verification by employee e of a pending transaction, once saved,
\* has set status verified, verifiedBy e and verifiedAt, and stored the notes,
\* when given, trimmed and cut to 500 characters; the owner, the payment fields,
\* submittedToSwift and submittedAt are as before, and so is every other
\* transaction
C36_VerifyWritesOnlyVerification ==
  [][\A h \in Handlers :
       /\ \A e \in OneEmployee, id \in RequestIds, notes \in VerifyNotes :
            (VerifyFind(h, e, id, notes) /\ req'[h].pc = "save") =>
              \A doc \in {SaveDoc(tx[id], req'[h].set[id])} :
                /\ tx[id].status = "pending"
                /\ doc.status = "verified"
                /\ doc.verifiedBy = e /\ e \in Employees
                /\ doc.verifiedAt = now
                /\ IF notes = <<>> THEN doc.employeeNotes = tx[id].employeeNotes
                   ELSE IsTrimmedCut(doc.employeeNotes, notes, NOTES_MAX)
       /\ VerifySave(h) =>
            \A id \in {req[h].id} :
              /\ tx'[id] = SaveDoc(tx[id], req[h].set[id])
              /\ DOMAIN req[h].set[id] \subseteq VerifyPaths
              /\ \A p \in DOMAIN tx[id] \ VerifyPaths : tx'[id][p] = tx[id][p]
              /\ {"userId", "submittedToSwift", "submittedAt"} \cup DOMAIN PaymentFields
                   \subseteq DOMAIN tx[id]
              /\ DOMAIN tx' = DOMAIN tx
              /\ \A other \in DOMAIN tx \ {id} : tx'[other] = tx[other]
              /\ req'[h].resp.status = 200]_vars

\* a verified transaction holds notes cut to the limit beside its payment
\* fields, and another transaction is still pending
C36_Witness ==
  \E id, other \in DOMAIN tx :
    /\ tx[id].status = "verified"
    /\ tx[id].verifiedBy \in Employees
    /\ Len(tx[id].employeeNotes) = NOTES_MAX
    /\ tx[id].amount = PaymentFields.amount
    /\ other # id /\ tx[other].status = "pending"

\* C35: GET /health is answered 200 with status 'OK' and a defined database
\* field in every state, with or without a session, and changes nothing that
\* the server stores
C35_HealthAlwaysOk ==
  /\ [](web.route = "health" =>
          web.status = 200 /\ web.health = "OK" /\ web.database # Undefined)
  /\ [][web'.route = "health" =>
          UNCHANGED <<users, emps, sessions, ctok, jwts, gone, tx>>]_vars

====
